---- MODULE Spec2Model ----
(***************************************************************************)
(* BlackboxAPI: the chat-session store (Chat / Message, models.py), the    *)
(* in-memory backend (DictDatabase, database.py) and the client operations *)
(* that act on them (client.py).                                           *)
(*                                                                         *)
(* Chat objects live in a heap (a sequence of Chat records, a handle is an *)
(* index); DictDatabase.chats maps a chat id to a handle, as the Python    *)
(* dict maps it to a reference.  Text is a sequence of characters.         *)
(***************************************************************************)
EXTENDS Integers, Sequences, FiniteSets, TLC

VARIABLES
    heap,               \* the Chat objects constructed so far
    chats,              \* DictDatabase.chats: chat id -> handle (0: no entry)
    metadata,           \* DictDatabase.metadata: chat id -> metadata record
    now,                \* datetime.utcnow(), in ticks
    nextId,             \* the next uuid4 a Message gets as its id
    use_chat_history,   \* AIClient.use_chat_history
    ret,                \* the sequence the last get_messages[_async] returned
    last,               \* the last call made and how it ended
    added,              \* per Chat: ids appended by add_message since the last clear
    issued,             \* per chat id: the Chat get_or_create_chat returned for it
                        \* since the id was last deleted (0: none yet)
    pc,                 \* per thread: position inside get_or_create_chat;
                        \* per task: position inside _generate_async
    horizon,            \* the tick at which the run under study stops
    client,             \* AIClient: the token it holds, its referer header,
                        \* the completion call in progress and how the last
                        \* one ended
    clock,              \* datetime.utcnow(), in hours
    cache_file,         \* the file validated_cache.json
    cookie_file         \* the file of cookies

vars == <<heap, chats, metadata, now, nextId, use_chat_history, ret, last,
          added, issued, pc, horizon, client, clock, cache_file,
          cookie_file>>

----------------------------------------------------------------------------
(* Bounds and inputs *)

MAX_MESSAGES == 25      \* Chat.MAX_MESSAGES
MaxTime == 5            \* clock ticks of a run of Spec
MaxObjs == 2            \* Chat objects constructed in a run
MaxLong == 29           \* clock ticks of a run of SpecLong
MaxGen == 5             \* clock ticks of a run of SpecGen
MaxClock == 6           \* hours of a run of SpecToken

Keys == {"default", "agent1"}       \* "default" and an AgentMode.id
UUIDS == <<"u1", "u2", "u3", "u4", "u5", "u6">>
AllIds == Keys \cup {UUIDS[i] : i \in 1..MaxObjs}
Threads == {1, 2}

NoImage == "None"
DefaultArg == [content |-> <<"h">>, role |-> "user", image |-> NoImage]
\* the arguments add_message is called with: a plain user message, an
\* assistant message with an image, blank contents, a role that is no role
Args == {DefaultArg,
         [content |-> <<"o", "k">>, role |-> "assistant", image |-> "img"],
         [content |-> <<>>, role |-> "user", image |-> NoImage],
         [content |-> <<" ">>, role |-> "assistant", image |-> NoImage],
         [content |-> <<"h">>, role |-> "bot", image |-> NoImage]}

----------------------------------------------------------------------------
(* models.py *)

\* Message(content, role, image) with __post_init__: a fresh uuid and utcnow
Message(arg, mid, t) ==
    [id |-> mid, content |-> arg.content, role |-> arg.role,
     timestamp |-> t, image |-> arg.image]

\* Chat.__init__(database, chat_id)
Chat(database, chat_id, t) ==
    [database |-> database, messages |-> <<>>, chat_id |-> chat_id,
     created_at |-> t,
     metadata |-> [message_count |-> 0, last_updated |-> t]]

\* a deque that holds one item more than MAX_MESSAGES before it evicts
DequeAppendLate(q, m) ==
    IF Len(q) > MAX_MESSAGES THEN Append(Tail(q), m) ELSE Append(q, m)

\* deque(maxlen=MAX_MESSAGES).append: a full deque drops its leftmost item
DequeAppend(q, m) ==
    IF Len(q) >= MAX_MESSAGES THEN Append(Tail(q), m) ELSE Append(q, m)

\* Chat.get_messages: list(self.messages)
get_messages(chat) == chat.messages

----------------------------------------------------------------------------
(* database.py: DictDatabase on a world w = [heap, chats, metadata] *)

NoMeta == [present |-> FALSE, created_at |-> 0, message_count |-> 0,
           last_updated |-> 0]

World == [heap |-> heap, chats |-> chats, metadata |-> metadata]

\* the first half of save_chat: self.chats[chat.chat_id] = chat
save_chat_store(w, h) ==
    [w EXCEPT !.chats[w.heap[h].chat_id] = h]

\* a save_chat that counts the saves instead of the messages
save_chat_meta_counting(w, h, t) ==
    LET id == w.heap[h].chat_id IN
    IF ~w.metadata[id].present
    THEN [w |-> w, err |-> "DatabaseError"]
    ELSE [w |-> [w EXCEPT !.metadata[id].message_count = @ + 1,
                            !.metadata[id].last_updated = t],
          err |-> "None"]

\* the second half: self.metadata[chat.chat_id].update({...}); a missing
\* entry is a KeyError, re-raised as DatabaseError
save_chat_meta(w, h, t) ==
    LET id == w.heap[h].chat_id IN
    IF ~w.metadata[id].present
    THEN [w |-> w, err |-> "DatabaseError"]
    ELSE [w |-> [w EXCEPT !.metadata[id].message_count =
                                Len(get_messages(w.heap[h])),
                            !.metadata[id].last_updated = t],
          err |-> "None"]

\* DictDatabase.save_chat(chat) for a Chat argument
save_chat(w, h, t) == save_chat_meta(save_chat_store(w, h), h, t)

\* get_or_create_chat, the branch taken when chat_id is not in self.chats:
\* self.chats[chat_id] = Chat(self, chat_id)
create_chat(w, id, t) ==
    [w EXCEPT !.heap = Append(w.heap, Chat(TRUE, id, t)),
              !.chats[id] = Len(w.heap) + 1]

\* ... and self.metadata[chat_id] = {...}
create_meta(w, id, t) ==
    [w EXCEPT !.metadata[id] =
        [present |-> TRUE, created_at |-> t, message_count |-> 0,
         last_updated |-> t]]

\* DictDatabase.get_or_create_chat(chat_id), run without interruption
get_or_create_chat(w, id, t) ==
    LET w1 == IF w.chats[id] = 0
              THEN create_meta(create_chat(w, id, t), id, t)
              ELSE w
    IN [w |-> w1, h |-> w1.chats[id]]

\* a delete_chat that pops the chat and leaves its metadata entry
delete_chat_keeping_meta(w, id) ==
    [w EXCEPT !.chats[id] = 0]

\* DictDatabase.delete_chat(chat_id): pop from both maps, absent is fine
delete_chat(w, id) ==
    [w EXCEPT !.chats[id] = 0, !.metadata[id] = NoMeta]

\* a get_chat that takes the chat out of the dict (pop instead of get)
get_chat_popping(w, id) ==
    [w |-> [w EXCEPT !.chats[id] = 0], h |-> w.chats[id]]

\* DictDatabase.get_chat(chat_id): self.chats.get(chat_id), 0 is None
get_chat(w, id) == [w |-> w, h |-> w.chats[id]]

\* DictDatabase.list_chats(): the keys of self.chats (their order is not
\* kept here)
list_chats(w) == {id \in AllIds : w.chats[id] # 0}

\* DictDatabase.get_chat_metadata(chat_id): self.metadata.get(chat_id),
\* NoMeta is None
get_chat_metadata(w, id) == w.metadata[id]

\* DictDatabase.clear_all()
clear_all(w) ==
    [w EXCEPT !.chats = [i \in AllIds |-> 0],
              !.metadata = [i \in AllIds |-> NoMeta]]

----------------------------------------------------------------------------
(* models.py: Chat operations on a world *)

\* Chat.add_message(content, role, image)
add_message(w, h, arg, mid, t) ==
    LET w1 == [w EXCEPT !.heap[h].messages =
                   DequeAppend(w.heap[h].messages, Message(arg, mid, t))]
    IN IF w.heap[h].database THEN save_chat(w1, h, t)
       ELSE [w |-> w1, err |-> "None"]

\* a clear_history that forgets to save
clear_history_unsaved(w, h, t) ==
    [w |-> [w EXCEPT !.heap[h].messages = <<>>], err |-> "None"]

\* Chat.clear_history()
clear_history(w, h, t) ==
    LET w1 == [w EXCEPT !.heap[h].messages = <<>>]
    IN IF w.heap[h].database THEN save_chat(w1, h, t)
       ELSE [w |-> w1, err |-> "None"]

----------------------------------------------------------------------------
(* State *)

NoArg == [content |-> <<>>, role |-> "", image |-> NoImage]
NoRet == [kind |-> "none", val |-> <<>>, h |-> 0]
NoCall == [op |-> "none", h |-> 0, id |-> "", arg |-> NoArg, err |-> "None",
           created |-> FALSE]
Idle == [at |-> "idle", id |-> "", result |-> 0]

Handles == 1..Len(heap)
InTime == now < horizon
CanConstruct == Len(heap) < MaxObjs

SetWorld(w) ==
    /\ heap' = w.heap
    /\ chats' = w.chats
    /\ metadata' = w.metadata

\* created: the call constructed a Chat
CalledNew(op, h, id, arg, err, created) ==
    last' = [op |-> op, h |-> h, id |-> id, arg |-> arg, err |-> err,
             created |-> created]

Called(op, h, id, arg, err) == CalledNew(op, h, id, arg, err, FALSE)

\* what a caller holding the returned sequence reads from it
Returned ==
    IF ret.kind = "deque" THEN heap[ret.h].messages ELSE ret.val

\* client.py: what completions.create / create_async is called with
NoAgent == "None"
Agents == {NoAgent, "agent1"}

\* models.py: the Model objects BLACKBOX and GPT4
BLACKBOX == [name |-> "Blackbox AI", id |-> "blackbox-ai", max_tokens |-> 2048,
             supports_streaming |-> FALSE]
GPT4 == [name |-> "GPT-4", id |-> "gpt-4o", max_tokens |-> 8192,
         supports_streaming |-> FALSE]
Models == {BLACKBOX, GPT4}

\* max_tokens: the default of create and another value
MaxTokens == {1024, 4096}

\* image: None, or the path of an image file
PathImage == "cat.png"
Images == {NoImage, PathImage}

Hi ==
    <<"h", "i">>

GenArgs ==
    [message : {Hi}, agent : Agents, model : Models, max_tokens : MaxTokens,
     image : Images]

Modes == {"sync", "async"}

\* the token the live fetch finds in the site's scripts
Token == "0f1e2d3c-4b5a-6978-8796-a5b4c3d2e1f0"
\* a token fetched earlier, as a cache file holds it
Stored == "00112233-4455-6677-8899-aabbccddeeff"

\* the site as a live fetch finds it: the main page (its status) and the
\* scripts it names (the status each loads with, the token the pattern
\* finds in it), or a connection that raises
Script(status, token) == [status |-> status, token |-> token]
Site(status, scripts) ==
    [raises |-> FALSE, status |-> status, scripts |-> scripts]
Unreachable == [raises |-> TRUE, status |-> 0, scripts |-> <<>>]
Sites ==
    {Unreachable,
     Site(503, <<>>),
     Site(200, <<>>),
     Site(200, <<Script(200, "None")>>),
     Site(200, <<Script(404, Token)>>),
     Site(200, <<Script(200, "None"), Script(200, Token)>>)}

\* response bodies
Ok ==
    <<"o", "k">>
Padded ==
    <<" ", "o", "k", "\n">>
Tabbed ==
    <<"a", "\t", "b">>
Marked ==
    <<"k", "e", "e", "p", " ", "$", "~", "~", "~", "$", " ", "l", "i", "n",
      "k", " ", "b", "l", "o", "c", "k", "\n", "m", "o", "r", "e", "$", "~",
      "~", "~", "$", " ", "t", "a", "i", "l">>
OnlyMarked ==
    <<"$", "~", "~", "~", "$", "x", "$", "~", "~", "~", "$", "\n">>
Promoted ==
    <<"o", "k", "\n", "G", "e", "n", "e", "r", "a", "t", "e", "d", " ", "b",
      "y", " ", "B", "L", "A", "C", "K", "B", "O", "X", ".", "A", "I", ",",
      " ", "t", "r", "y", " ", "u", "n", "l", "i", "m", "i", "t", "e", "d",
      " ", "c", "h", "a", "t", " ", "h", "t", "t", "p", "s", ":", "/", "/",
      "w", "w", "w", ".", "b", "l", "a", "c", "k", "b", "o", "x", ".", "a",
      "i", "\n", "\n">>
PromotedLast ==
    <<"o", "k", "\n", "G", "e", "n", "e", "r", "a", "t", "e", "d", " ", "b",
      "y", " ", "B", "L", "A", "C", "K", "B", "O", "X", ".", "A", "I", ",",
      " ", "t", "r", "y", " ", "u", "n", "l", "i", "m", "i", "t", "e", "d",
      " ", "c", "h", "a", "t", " ", "h", "t", "t", "p", "s", ":", "/", "/",
      "w", "w", "w", ".", "b", "l", "a", "c", "k", "b", "o", "x", ".", "a",
      "i">>
PromotedOther ==
    <<"G", "e", "n", "e", "r", "a", "t", "e", "d", " ", "b", "y", " ", "B",
      "L", "A", "C", "K", "B", "O", "X", ".", "A", "I", " ", "t", "o", "d",
      "a", "y", "\n", "o", "k">>
NotFound ==
    <<"n", "o">>

Bodies == {Ok, <<>>, Padded, Tabbed, Marked, OnlyMarked, Promoted,
           PromotedLast, PromotedOther}

\* what the server answers: a status and a body; decodable is whether the
\* bytes of the body decode as text
Responses ==
    {[status |-> 200, body |-> b, decodable |-> TRUE] : b \in Bodies}
    \cup {[status |-> st, body |-> NotFound, decodable |-> TRUE] :
             st \in {201, 204, 404, 500}}
    \cup {[status |-> 200, body |-> Ok, decodable |-> FALSE]}

OkResponse == [status |-> 200, body |-> Ok, decodable |-> TRUE]
NotFoundResponse == [status |-> 404, body |-> NotFound, decodable |-> TRUE]
NoResponse == [status |-> 0, body |-> <<>>, decodable |-> TRUE]
\* no call in progress; g holds the arguments of the call while it runs
NoGenArgs == [message |-> <<>>, agent |-> NoAgent, model |-> BLACKBOX,
              max_tokens |-> 0, image |-> NoImage]
\* fetch: what became of the live token fetch of the call in progress
\* ("none": none was attempted)
NoGen == [at |-> "idle", mode |-> "", h |-> 0, before |-> <<>>, mid |-> 0,
          message |-> <<>>, g |-> NoGenArgs, fetch |-> "none"]
NoPayload == [id |-> ""]
NoRaise == [message |-> "", status |-> 0, body |-> <<>>]
\* validated is _last_validated_value; validated_at is the hour at which
\* that value was fetched from the site (the client keeps no such record)
\* cookie is headers["cookie"], once it is set
NoClient == [validated |-> "None", validated_at |-> 0, referer |-> "None",
             cookie |-> [set |-> FALSE, val |-> <<>>],
             call |-> NoGen, payload |-> NoPayload, response |-> NoResponse,
             result |-> <<>>, raised |-> NoRaise]

\* a file that does not exist; text is what the file holds, json tells
\* whether json.load can decode it, and value is what it decodes to
NoCookies == [exists |-> FALSE, text |-> <<>>, json |-> FALSE, value |-> <<>>]

\* AIClient._validated_cache_ttl: timedelta(hours=4)
_validated_cache_ttl == 4

\* validated_cache.json: absent; or a JSON object with a value and the
\* timestamp of its fetch; or a file json.load cannot read
NoFile == [present |-> FALSE, readable |-> FALSE, value |-> "None",
           timestamp |-> 0]
Corrupt == [present |-> TRUE, readable |-> FALSE, value |-> "None",
            timestamp |-> 0]

\* AIClient._save_validated_to_cache(value) at the given hour
_save_validated_to_cache(value, hour) ==
    [present |-> TRUE, readable |-> TRUE, value |-> value, timestamp |-> hour]

\* AIClient._load_validated_from_cache() on a client c at the given hour:
\* the value of a file younger than the TTL is taken; a missing, unreadable
\* or older file leaves the client as it is
_load_validated_from_cache(c, file, hour) ==
    IF /\ file.present
       /\ file.readable
       /\ hour - file.timestamp < _validated_cache_ttl
    THEN [c EXCEPT !.validated = file.value, !.validated_at = file.timestamp]
    ELSE c

InitCommon ==
    /\ heap = <<>>
    /\ chats = [i \in AllIds |-> 0]
    /\ metadata = [i \in AllIds |-> NoMeta]
    /\ now = 1
    /\ nextId = 1
    /\ use_chat_history = TRUE
    /\ ret = NoRet
    /\ last = NoCall
    /\ added = <<>>
    /\ issued = [i \in AllIds |-> 0]
    /\ pc = [t \in Threads |-> Idle]
    /\ client = NoClient
    /\ clock = 0
    /\ cache_file = NoFile
    /\ cookie_file = NoCookies

Init ==
    /\ InitCommon
    /\ horizon = MaxTime

\* AIClient(use_chat_history=history) on a new DictDatabase, constructed
\* at the given hour in a directory that holds the given cache file, for a
\* run of bound clock ticks
InitWith(history, bound, file, hour) ==
    /\ heap = <<>>
    /\ chats = [i \in AllIds |-> 0]
    /\ metadata = [i \in AllIds |-> NoMeta]
    /\ now = 1
    /\ nextId = 1
    /\ use_chat_history = history
    /\ ret = NoRet
    /\ last = NoCall
    /\ added = <<>>
    /\ issued = [i \in AllIds |-> 0]
    /\ pc = [t \in Threads |-> Idle]
    /\ client = _load_validated_from_cache(NoClient, file, hour)
    /\ clock = hour
    /\ cache_file = file
    /\ cookie_file = NoCookies
    /\ horizon = bound

----------------------------------------------------------------------------
(* Calls, each run to completion *)

\* db.get_or_create_chat(id)
GetOrCreateChat(id) ==
    /\ InTime
    /\ chats[id] = 0 => CanConstruct
    /\ LET r == get_or_create_chat(World, id, now) IN
       /\ SetWorld(r.w)
       /\ issued' = [issued EXCEPT ![id] = r.h]
       /\ CalledNew("get_or_create_chat", r.h, id, NoArg, "None",
                    chats[id] = 0)
    /\ added' = IF chats[id] = 0 THEN Append(added, <<>>) ELSE added
    /\ now' = IF chats[id] = 0 THEN now + 1 ELSE now
    /\ UNCHANGED <<nextId, use_chat_history, ret, pc, horizon, client,
                   clock, cache_file, cookie_file>>

\* Chat(db, id): the constructor called by the application; the database
\* is not told of the new object
NewChat(id) ==
    /\ InTime
    /\ CanConstruct
    /\ heap' = Append(heap, Chat(TRUE, id, now))
    /\ added' = Append(added, <<>>)
    /\ CalledNew("Chat", Len(heap) + 1, id, NoArg, "None", TRUE)
    /\ now' = now + 1
    /\ UNCHANGED <<chats, metadata, nextId, use_chat_history, ret, issued, pc,
                   horizon, client, clock, cache_file, cookie_file>>

\* chat.add_message(content, role, image)
AddMessage(h, arg) ==
    /\ InTime
    /\ LET r == add_message(World, h, arg, nextId, now) IN
       /\ SetWorld(r.w)
       /\ Called("add_message", h, heap[h].chat_id, arg, r.err)
    /\ added' = [added EXCEPT ![h] = Append(@, nextId)]
    /\ nextId' = nextId + 1
    /\ now' = now + 1
    /\ UNCHANGED <<use_chat_history, ret, issued, pc, horizon, client,
                   clock, cache_file, cookie_file>>

\* chat.clear_history()
ClearHistory(h) ==
    /\ InTime
    /\ LET r == clear_history(World, h, now) IN
       /\ SetWorld(r.w)
       /\ Called("clear_history", h, heap[h].chat_id, NoArg, r.err)
    /\ added' = [added EXCEPT ![h] = <<>>]
    /\ now' = now + 1
    /\ UNCHANGED <<nextId, use_chat_history, ret, issued, pc, horizon, client,
                   clock, cache_file, cookie_file>>

\* db.save_chat(chat)
SaveChat(h) ==
    /\ InTime
    /\ LET r == save_chat(World, h, now) IN
       /\ SetWorld(r.w)
       /\ Called("save_chat", h, heap[h].chat_id, NoArg, r.err)
    /\ now' = now + 1
    /\ UNCHANGED <<nextId, use_chat_history, ret, added, issued, pc, horizon, client,
                   clock, cache_file, cookie_file>>

\* db.save_chat(x) for an x that is no Chat: ValueError, re-raised
SaveChatInvalid ==
    /\ Called("save_chat", 0, "", NoArg, "DatabaseError")
    /\ UNCHANGED <<heap, chats, metadata, now, nextId, use_chat_history, ret,
                   added, issued, pc, horizon, client,
                   clock, cache_file, cookie_file>>

\* db.delete_chat(id)
DeleteChat(id) ==
    /\ SetWorld(delete_chat(World, id))
    /\ issued' = [issued EXCEPT ![id] = 0]
    /\ Called("delete_chat", 0, id, NoArg, "None")
    /\ UNCHANGED <<now, nextId, use_chat_history, ret, added, pc, horizon, client,
                   clock, cache_file, cookie_file>>

\* db.clear_all()
ClearAll ==
    /\ SetWorld(clear_all(World))
    /\ issued' = [i \in AllIds |-> 0]
    /\ Called("clear_all", 0, "", NoArg, "None")
    /\ UNCHANGED <<now, nextId, use_chat_history, ret, added, pc, horizon, client,
                   clock, cache_file, cookie_file>>

\* db.get_chat(id)
GetChat(id) ==
    /\ LET r == get_chat(World, id) IN
       /\ SetWorld(r.w)
       /\ Called("get_chat", r.h, id, NoArg, "None")
    /\ UNCHANGED <<now, nextId, use_chat_history, ret, added, issued, pc,
                   horizon, client,
                   clock, cache_file, cookie_file>>

\* chat.get_messages(): a new list
GetMessages(h) ==
    /\ ret' = [kind |-> "list", val |-> get_messages(heap[h]), h |-> 0]
    /\ Called("get_messages", h, heap[h].chat_id, NoArg, "None")
    /\ UNCHANGED <<heap, chats, metadata, now, nextId, use_chat_history,
                   added, issued, pc, horizon, client,
                   clock, cache_file, cookie_file>>

\* chat.get_messages_async(): the definition in force is the last one in the
\* class body, which returns self.messages itself
get_messages_async(h) == [kind |-> "deque", val |-> <<>>, h |-> h]

GetMessagesAsync(h) ==
    /\ ret' = get_messages_async(h)
    /\ Called("get_messages_async", h, heap[h].chat_id, NoArg, "None")
    /\ UNCHANGED <<heap, chats, metadata, now, nextId, use_chat_history,
                   added, issued, pc, horizon, client,
                   clock, cache_file, cookie_file>>

\* DictDatabase defines no save_chat_async (nor does DatabaseInterface):
\* the attribute lookup self.database.save_chat_async raises AttributeError
\* and nothing is stored
save_chat_async(w, h, t) == [w |-> w, err |-> "AttributeError"]

\* Chat.add_message_async(content, role): the definition in force is the
\* last one in the class body, which takes no image; a call that passes one
\* is a TypeError before the body runs
add_message_async(w, h, arg, mid, t) ==
    IF arg.image # NoImage
    THEN [w |-> w, err |-> "TypeError"]
    ELSE LET w1 == [w EXCEPT !.heap[h].messages =
                        DequeAppend(w.heap[h].messages, Message(arg, mid, t))]
         IN IF w.heap[h].database THEN save_chat_async(w1, h, t)
            ELSE [w |-> w1, err |-> "None"]

AddMessageAsync(h, arg) ==
    /\ InTime
    /\ LET r == add_message_async(World, h, arg, nextId, now)
           ran == r.err # "TypeError"
       IN /\ SetWorld(r.w)
          /\ Called("add_message_async", h, heap[h].chat_id, arg, r.err)
          /\ added' = IF ran THEN [added EXCEPT ![h] = Append(@, nextId)]
                      ELSE added
          /\ nextId' = IF ran THEN nextId + 1 ELSE nextId
          /\ now' = IF ran THEN now + 1 ELSE now
    /\ UNCHANGED <<use_chat_history, ret, issued, pc, horizon, client,
                   clock, cache_file, cookie_file>>

\* Chat.clear_history_async(): the definition in force (the last one)
clear_history_async(w, h, t) ==
    LET w1 == [w EXCEPT !.heap[h].messages = <<>>]
    IN IF w.heap[h].database THEN save_chat_async(w1, h, t)
       ELSE [w |-> w1, err |-> "None"]

ClearHistoryAsync(h) ==
    /\ LET r == clear_history_async(World, h, now) IN
       /\ SetWorld(r.w)
       /\ Called("clear_history_async", h, heap[h].chat_id, NoArg, r.err)
    /\ added' = [added EXCEPT ![h] = <<>>]
    /\ UNCHANGED <<now, nextId, use_chat_history, ret, issued, pc, horizon, client,
                   clock, cache_file, cookie_file>>

\* the caller calls .clear() on the sequence it was returned
MutateReturned ==
    /\ ret.kind # "none"
    /\ Returned # <<>>
    /\ IF ret.kind = "deque"
       THEN /\ heap' = [heap EXCEPT ![ret.h].messages = <<>>]
            /\ ret' = ret
       ELSE /\ ret' = [ret EXCEPT !.val = <<>>]
            /\ heap' = heap
    /\ Called("returned.clear", ret.h, "", NoArg, "None")
    /\ UNCHANGED <<chats, metadata, now, nextId, use_chat_history, added,
                   issued, pc, horizon, client,
                   clock, cache_file, cookie_file>>

----------------------------------------------------------------------------
(* client.py *)

\* a _get_chat that keeps one conversation for all agents
_get_chat_one_for_all(w, key, t) ==
    get_or_create_chat(w, "default", t)

\* AIClient._get_chat(agent_mode); key is agent_mode.id, or "default"
\* without an agent
_get_chat(w, key, t) ==
    IF ~use_chat_history
    THEN [w |-> [w EXCEPT !.heap =
                    Append(w.heap, Chat(TRUE, UUIDS[Len(w.heap) + 1], t))],
          h |-> Len(w.heap) + 1]
    ELSE get_or_create_chat(w, key, t)

\* AIClient.clear_chat_history(agent): chat.clear_history(), then
\* self.database.save_chat(chat) once more
clear_chat_history(w, key, t) ==
    LET g == _get_chat(w, key, t)
        c == clear_history(g.w, g.h, t)
    IN IF c.err # "None" THEN [w |-> c.w, h |-> g.h, err |-> c.err]
       ELSE LET s == save_chat(c.w, g.h, t)
            IN [w |-> s.w, h |-> g.h, err |-> s.err]

ClearChatHistory(key) ==
    /\ InTime
    /\ (~use_chat_history \/ chats[key] = 0) => CanConstruct
    /\ LET r == clear_chat_history(World, key, now) IN
       /\ SetWorld(r.w)
       /\ added' = IF Len(r.w.heap) > Len(heap)
                   THEN Append(added, <<>>)
                   ELSE [added EXCEPT ![r.h] = <<>>]
       /\ issued' = IF use_chat_history THEN [issued EXCEPT ![key] = r.h]
                    ELSE issued
       /\ CalledNew("clear_chat_history", r.h, r.w.heap[r.h].chat_id, NoArg,
                    r.err, Len(r.w.heap) > Len(heap))
    /\ now' = now + 1
    /\ UNCHANGED <<nextId, use_chat_history, ret, pc, horizon, client,
                   clock, cache_file, cookie_file>>

\* AIClient.get_chat_history(agent): self._get_chat(agent).get_messages()
get_chat_history(w, key, t) ==
    LET g == _get_chat(w, key, t)
    IN [w |-> g.w, h |-> g.h, val |-> get_messages(g.w.heap[g.h])]

GetChatHistory(key) ==
    /\ (~use_chat_history \/ chats[key] = 0) => InTime /\ CanConstruct
    /\ LET r == get_chat_history(World, key, now)
           created == Len(r.w.heap) > Len(heap)
       IN /\ SetWorld(r.w)
          /\ ret' = [kind |-> "list", val |-> r.val, h |-> 0]
          /\ added' = IF created THEN Append(added, <<>>) ELSE added
          /\ issued' = IF use_chat_history THEN [issued EXCEPT ![key] = r.h]
                       ELSE issued
          /\ CalledNew("get_chat_history", r.h, r.w.heap[r.h].chat_id, NoArg,
                       "None", created)
          /\ now' = IF created THEN now + 1 ELSE now
    /\ UNCHANGED <<nextId, use_chat_history, pc, horizon, client, clock,
                   cache_file, cookie_file>>

\* AIClient.delete_chat(agent): self.database.delete_chat(chat_id)
ClientDeleteChat(key) ==
    /\ SetWorld(delete_chat(World, key))
    /\ issued' = [issued EXCEPT ![key] = 0]
    /\ Called("AIClient.delete_chat", 0, key, NoArg, "None")
    /\ UNCHANGED <<now, nextId, use_chat_history, ret, added, pc, horizon,
                   client, clock, cache_file, cookie_file>>

----------------------------------------------------------------------------
(* client.py: text.  The re.sub calls of _process_response and             *)
(* _generate_async, str.isprintable and str.strip on character sequences   *)

\* the literal \$~~~\$ of the marker pattern
MARKER == <<"$", "~", "~", "~", "$">>

\* the literal Generated by BLACKBOX\.AI both promotional patterns start with
PROMO ==
    <<"G", "e", "n", "e", "r", "a", "t", "e", "d", " ", "b", "y", " ", "B",
      "L", "A", "C", "K", "B", "O", "X", ".", "A", "I">>

\* ... and how the pattern of _process_response goes on, up to the \n
PROMO_REST ==
    <<",", " ", "t", "r", "y", " ", "u", "n", "l", "i", "m", "i", "t", "e",
      "d", " ", "c", "h", "a", "t", " ", "h", "t", "t", "p", "s", ":", "/",
      "/", "w", "w", "w", ".", "b", "l", "a", "c", "k", "b", "o", "x", ".",
      "a", "i">>

Whitespace == {" ", "\t", "\n"}
\* content.strip() == ""
IsBlank(content) == \A i \in 1..Len(content) : content[i] \in Whitespace

\* lit occurs in s at index i
StartsWith(s, i, lit) ==
    /\ i + Len(lit) - 1 <= Len(s)
    /\ SubSeq(s, i, i + Len(lit) - 1) = lit

\* the least member of a set of indexes, 0 for the empty set
First(S) == IF S = {} THEN 0 ELSE CHOOSE j \in S : \A k \in S : j <= k

\* the index of the first occurrence of lit in s at or after i, 0 if none
Find(s, i, lit) == First({j \in i..Len(s) : StartsWith(s, j, lit)})

\* the index after an optional \n at index e
SkipNewline(s, e) == IF e <= Len(s) /\ s[e] = "\n" THEN e + 1 ELSE e

\* \$~~~\$.*?\$~~~\$ with re.DOTALL matched at index j: the index after the
\* match, which runs to the nearest later marker, newlines included; 0 when
\* there is no match at j
MarkersEnd(s, j) ==
    LET close == IF StartsWith(s, j, MARKER)
                 THEN Find(s, j + Len(MARKER), MARKER)
                 ELSE 0
    IN IF close = 0 THEN 0 ELSE close + Len(MARKER)

\* re.sub(r'\$~~~\$.*?\$~~~\$', '', s, flags=re.DOTALL), from index i on:
\* the leftmost match is cut out, then the next one after it
RECURSIVE SubMarkers(_, _)
SubMarkers(s, i) ==
    LET m == First({j \in i..Len(s) : MarkersEnd(s, j) # 0})
    IN IF m = 0 THEN SubSeq(s, i, Len(s))
       ELSE SubSeq(s, i, m - 1) \o SubMarkers(s, MarkersEnd(s, m))

\* Generated by BLACKBOX\.AI, try unlimited chat
\* https://www\.blackbox\.ai\n\n? matched at index j: the index after the
\* match, 0 when there is no match at j
PromoEnd(s, j) ==
    IF StartsWith(s, j, PROMO \o PROMO_REST \o <<"\n">>)
    THEN SkipNewline(s, j + Len(PROMO) + Len(PROMO_REST) + 1)
    ELSE 0

\* re.sub of that pattern with '', from index i on
RECURSIVE SubPromo(_, _)
SubPromo(s, i) ==
    LET m == First({j \in i..Len(s) : PromoEnd(s, j) # 0})
    IN IF m = 0 THEN SubSeq(s, i, Len(s))
       ELSE SubSeq(s, i, m - 1) \o SubPromo(s, PromoEnd(s, m))

\* Generated by BLACKBOX\.AI.*?\n\n? matched at index j: the dot matches no
\* newline, so the match runs to the first \n after the literal; 0 when
\* there is no match at j
PromoAsyncEnd(s, j) ==
    LET nl == IF StartsWith(s, j, PROMO)
              THEN Find(s, j + Len(PROMO), <<"\n">>)
              ELSE 0
    IN IF nl = 0 THEN 0 ELSE SkipNewline(s, nl + 1)

\* re.sub of that pattern with '', from index i on
RECURSIVE SubPromoAsync(_, _)
SubPromoAsync(s, i) ==
    LET m == First({j \in i..Len(s) : PromoAsyncEnd(s, j) # 0})
    IN IF m = 0 THEN SubSeq(s, i, Len(s))
       ELSE SubSeq(s, i, m - 1) \o SubPromoAsync(s, PromoAsyncEnd(s, m))

\* AIClient._process_response(response_text)
_process_response(response_text) ==
    SubPromo(SubMarkers(response_text, 1), 1)

\* str.isprintable() of one character: of the characters used here the tab
\* and the newline are not printable
isprintable(char) == char \notin {"\t", "\n"}

\* ''.join(char for char in response_text if char.isprintable() or
\* char == '\n')
Printable(response_text) ==
    SelectSeq(response_text, LAMBDA char : isprintable(char) \/ char = "\n")

\* str.lstrip() / str.rstrip(): from the first / up to the last character
\* that is no whitespace
lstrip(s) ==
    LET k == First({j \in 1..Len(s) : s[j] \notin Whitespace})
    IN IF k = 0 THEN <<>> ELSE SubSeq(s, k, Len(s))

rstrip(s) ==
    LET ks == {j \in 1..Len(s) : s[j] \notin Whitespace}
    IN IF ks = {} THEN <<>>
       ELSE SubSeq(s, 1, CHOOSE j \in ks : \A k \in ks : k <= j)

\* str.strip()
strip(s) == rstrip(lstrip(s))

----------------------------------------------------------------------------
(* client.py: completions.create / create_async, that is _generate and     *)
(* _generate_async.  A call runs in two steps: up to the request it sends, *)
(* and from the response on.                                               *)

\* what _prepare_payload appends to every message: two newlines and one
\* sentence, in Russian, asking for an answer in the language of the
\* question (the sentence is carried as one item)
Instruction == <<"\n", "\n", "<answer only in the language I asked in>">>

\* utils.image_to_base64(image): a data: URI is returned as it is; the path
\* of a PNG file that can be read gives the data: URI of its bytes
EncodedImage == "data:image/png;base64,iVBORw0KGgo="
image_to_base64(image) == IF image = PathImage THEN EncodedImage ELSE image

\* a to_dict that leaves the image out
to_dict_flat(m) ==
    [id |-> m.id, content |-> m.content, role |-> m.role]

\* Message.to_dict()
to_dict(m) ==
    IF m.image # NoImage
    THEN [id |-> m.id, content |-> m.content, role |-> m.role,
          data |-> [fileText |-> "", imageBase64 |-> m.image,
                    title |-> "None"]]
    ELSE [id |-> m.id, content |-> m.content, role |-> m.role]

\* agent.to_dict() if agent else {}
agentMode(agent) ==
    IF agent = NoAgent THEN <<>>
    ELSE [mode |-> TRUE, id |-> agent, name |-> agent]

\* a rule that looks at the image and the model only
userSelectedModel_any_agent(image, agent, model) ==
    IF image = NoImage /\ model # BLACKBOX THEN model.id ELSE "None"

\* payload["userSelectedModel"]: None, unless
\* image is None and not agent and model != BLACKBOX
userSelectedModel(image, agent, model) ==
    IF image = NoImage /\ agent = NoAgent /\ model # BLACKBOX
    THEN model.id
    ELSE "None"

\* a referer that is the chat path for every call
referer_generic(agent) ==
    <<"https://www.blackbox.ai/chat">>

\* self.headers["referer"]
referer(agent) ==
    IF agent # NoAgent THEN <<"https://www.blackbox.ai/agent/", agent>>
    ELSE <<"https://www.blackbox.ai/chat">>

\* the live fetch of _fetch_validated against a site: the main page, then
\* its scripts in turn; the first script that loads with status 200 and
\* holds a token of the pattern gives the value, "None" if there is none
FirstToken(scripts) ==
    LET hits == {i \in 1..Len(scripts) :
                    scripts[i].status = 200 /\ scripts[i].token # "None"}
    IN IF hits = {} THEN "None" ELSE scripts[First(hits)].token

live_fetch(site) ==
    IF site.raises THEN "None"
    ELSE IF site.status # 200 THEN "None"
    ELSE FirstToken(site.scripts)

\* _fetch_validated from the point at which its live fetch ends, on the
\* client as it is by then: a token is kept in memory and saved to the
\* cache file; after a failed fetch the value is what the client holds
_fetch_validated_live(c, file, fetched, hour) ==
    IF fetched # "None"
    THEN [c |-> [c EXCEPT !.validated = fetched, !.validated_at = hour],
          file |-> _save_validated_to_cache(fetched, hour),
          value |-> fetched, fetch |-> "ok", err |-> "None"]
    ELSE [c |-> c, file |-> file, value |-> c.validated,
          fetch |-> "failed", err |-> "None"]

\* a _fetch_validated that raises when the live fetch fails
_fetch_validated_raising(c, file, fetched, hour) ==
    IF c.validated # "None"
    THEN [c |-> c, file |-> file, value |-> c.validated, fetch |-> "none",
          err |-> "None"]
    ELSE IF fetched # "None"
         THEN [c |-> [c EXCEPT !.validated = fetched,
                               !.validated_at = hour],
               file |-> _save_validated_to_cache(fetched, hour),
               value |-> fetched, fetch |-> "ok", err |-> "None"]
         ELSE [c |-> c, file |-> file, value |-> "None",
               fetch |-> "failed", err |-> "APIError"]

\* AIClient._fetch_validated() on a client c at the given hour: the value
\* held in memory if there is one; else the live fetch, whose result is
\* fetched: a token, which is kept in memory and saved to the cache file,
\* or "None" (the fetch failed), which leaves what was held
_fetch_validated(c, file, fetched, hour) ==
    IF c.validated # "None"
    THEN [c |-> c, file |-> file, value |-> c.validated, fetch |-> "none",
          err |-> "None"]
    ELSE _fetch_validated_live(c, file, fetched, hour)

\* a payload that carries the message of this call only
payload_last_only(chat, g, validated_value) ==
    [messages |-> <<to_dict(get_messages(chat)[Len(get_messages(chat))])>>,
     id |-> chat.chat_id,
     agentMode |-> agentMode(g.agent),
     maxTokens |-> g.max_tokens,
     userSelectedModel |-> userSelectedModel(g.image, g.agent, g.model),
     validated |-> validated_value]

\* the payload dict of _prepare_payload; the keys with fixed values are
\* left out
payload(chat, g, validated_value) ==
    [messages |-> [i \in 1..Len(get_messages(chat)) |->
                      to_dict(get_messages(chat)[i])],
     id |-> chat.chat_id,
     agentMode |-> agentMode(g.agent),
     maxTokens |-> g.max_tokens,
     userSelectedModel |-> userSelectedModel(g.image, g.agent, g.model),
     validated |-> validated_value]

\* _prepare_payload up to its await: the chat of the call and the user
\* message added to it
_prepare_payload_chat(w, g, mid, t) ==
    LET key == IF g.agent = NoAgent THEN "default" ELSE g.agent
        gc == _get_chat(w, key, t)
        t1 == IF Len(gc.w.heap) > Len(w.heap) THEN t + 1 ELSE t
        user == [content |-> g.message \o Instruction, role |-> "user",
                 image |-> g.image]
        a == add_message(gc.w, gc.h, user, mid, t1)
    IN [w |-> a.w, h |-> gc.h, user |-> user, err |-> a.err]

\* _prepare_payload from the result f of _fetch_validated on: the payload,
\* built from the chat as it is by then, and the referer header
_prepare_payload_rest(w, f, h, g) ==
    [c |-> [f.c EXCEPT !.referer = referer(g.agent)],
     payload |-> payload(w.heap[h], g, f.value)]

\* AIClient._prepare_payload(message, agent, model, max_tokens, image)
\* on the world w and the client c, with the cache file as it is at the
\* given hour
_prepare_payload(w, c, file, g, mid, t, fetched, hour) ==
    LET b == _prepare_payload_chat(w, g, mid, t)
        f == _fetch_validated(c, file, fetched, hour)
    IN IF b.err # "None"
       THEN [w |-> b.w, c |-> c, file |-> file, h |-> b.h, user |-> b.user,
             payload |-> NoPayload, fetch |-> "none", err |-> b.err]
       ELSE IF f.err # "None"
       THEN [w |-> b.w, c |-> f.c, file |-> f.file, h |-> b.h,
             user |-> b.user, payload |-> NoPayload, fetch |-> f.fetch,
             err |-> f.err]
       ELSE [w |-> b.w, c |-> _prepare_payload_rest(b.w, f, b.h, g).c,
             file |-> f.file, h |-> b.h, user |-> b.user,
             payload |-> _prepare_payload_rest(b.w, f, b.h, g).payload,
             fetch |-> f.fetch, err |-> "None"]

\* the arguments _prepare_payload is called with: _generate passes its own,
\* _generate_async passes image_to_base64(image) for an image that is not
\* None
encoded(mode, g) ==
    IF mode = "async" /\ g.image # NoImage
    THEN [g EXCEPT !.image = image_to_base64(g.image)]
    ELSE g

\* the first step of a call: _generate[_async] up to the request it sends
Generate(mode, g, fetched) ==
    /\ client.call.at = "idle"
    /\ InTime
    /\ (~use_chat_history
        \/ chats[IF g.agent = NoAgent THEN "default" ELSE g.agent] = 0)
       => CanConstruct
    /\ client.validated # "None" => fetched = "None"
    /\ LET r == _prepare_payload(World, client, cache_file, encoded(mode, g),
                                 nextId, now, fetched, clock)
           created == Len(r.w.heap) > Len(heap)
       IN /\ SetWorld(r.w)
          /\ client' =
                [r.c EXCEPT
                    !.call = [at |-> IF r.err = "None" THEN "posted"
                                     ELSE "idle",
                              mode |-> mode, h |-> r.h,
                              before |-> IF created THEN <<>>
                                         ELSE heap[r.h].messages,
                              mid |-> nextId, message |-> g.message,
                              g |-> IF r.err = "None" THEN g
                                    ELSE NoGenArgs,
                              fetch |-> r.fetch],
                    !.payload = r.payload,
                    !.response = NoResponse,
                    !.result = <<>>,
                    !.raised = NoRaise]
          /\ CalledNew(IF mode = "sync" THEN "_generate"
                       ELSE "_generate_async",
                       r.h, r.w.heap[r.h].chat_id, r.user,
                       IF r.err = "None" THEN "pending" ELSE r.err, created)
          /\ added' = IF created THEN Append(added, <<nextId>>)
                      ELSE [added EXCEPT ![r.h] = Append(@, nextId)]
          /\ issued' = IF use_chat_history
                       THEN [issued EXCEPT ![r.w.heap[r.h].chat_id] = r.h]
                       ELSE issued
          /\ now' = IF created THEN now + 2 ELSE now + 1
          /\ cache_file' = r.file
    /\ nextId' = nextId + 1
    /\ UNCHANGED <<use_chat_history, ret, pc, horizon, clock, cookie_file>>

\* raise APIError("Failed to process the server response")
Failed(w) ==
    [w |-> w, err |-> "APIError", result |-> <<>>,
     raised |-> [message |-> "Failed to process the server response",
                 status |-> 0, body |-> <<>>]]

\* raise APIError(f"API returned status code {status}: {body}")
Refused(w, response) ==
    [w |-> w, err |-> "APIError", result |-> <<>>,
     raised |-> [message |-> "API returned status code",
                 status |-> response.status, body |-> response.body]]

\* a _generate that stores the response before it looks at the status
_generate_storing_first(w, h, response, mid, t) ==
    LET a == add_message(w, h, [content |-> response.body,
                                role |-> "assistant", image |-> NoImage],
                         mid, t)
    IN IF response.status # 200 THEN Refused(a.w, response)
       ELSE [w |-> a.w, err |-> "None", result |-> response.body,
             raised |-> NoRaise]

\* _generate from the response on
_generate(w, h, response, mid, t) ==
    IF response.status # 200 THEN Refused(w, response)
    ELSE IF ~response.decodable THEN Failed(w)
    ELSE LET processed_response ==
                 _process_response(Printable(response.body))
             a == add_message(w, h, [content |-> processed_response,
                                     role |-> "assistant",
                                     image |-> NoImage], mid, t)
         IN IF a.err # "None" THEN Failed(a.w)
            ELSE [w |-> a.w, err |-> "None", result |-> processed_response,
                  raised |-> NoRaise]

\* a _generate_async that takes the user message back when the server
\* refuses the request
_generate_async_rollback(w, h, response, mid, t) ==
    IF response.status # 200
    THEN Refused([w EXCEPT !.heap[h].messages =
                      SubSeq(@, 1, Len(@) - 1)], response)
    ELSE [w |-> w, err |-> "APIError", result |-> <<>>, raised |-> NoRaise]

\* _generate_async from the response on
_generate_async(w, h, response, mid, t) ==
    IF response.status # 200 THEN Refused(w, response)
    ELSE IF ~response.decodable THEN Failed(w)
    ELSE LET response_text ==
                 SubPromoAsync(SubMarkers(response.body, 1), 1)
             a == add_message(w, h, [content |-> strip(response_text),
                                     role |-> "assistant",
                                     image |-> NoImage], mid, t)
         IN IF strip(response_text) = <<>> THEN Failed(w)
            ELSE IF a.err # "None" THEN Failed(a.w)
            ELSE [w |-> a.w, err |-> "None",
                  result |-> strip(response_text), raised |-> NoRaise]

\* the second step: the server's response arrives
Respond(response) ==
    /\ client.call.at = "posted"
    /\ LET r == IF client.call.mode = "sync"
                THEN _generate(World, client.call.h, response, nextId, now)
                ELSE _generate_async(World, client.call.h, response, nextId,
                                     now)
           appended == r.w.heap # heap
       IN /\ appended => InTime
          /\ SetWorld(r.w)
          /\ client' = [client EXCEPT !.call.at = "idle",
                                      !.call.g = NoGenArgs,
                                      !.call.fetch = "none",
                                      !.payload = NoPayload,
                                      !.response = response,
                                      !.result = r.result,
                                      !.raised = r.raised]
          /\ last' = [last EXCEPT !.err = r.err]
          /\ added' = IF appended
                      THEN [added EXCEPT ![client.call.h] = Append(@, nextId)]
                      ELSE added
          /\ nextId' = IF appended THEN nextId + 1 ELSE nextId
          /\ now' = IF appended THEN now + 1 ELSE now
    /\ UNCHANGED <<use_chat_history, ret, issued, pc, horizon, clock,
                   cache_file, cookie_file>>

\* ... or none arrives: requests.post / session.post raises (no connection,
\* a timeout) and the exception leaves the call as it is
TransportFail ==
    /\ client.call.at = "posted"
    /\ client' = [client EXCEPT !.call.at = "idle", !.call.g = NoGenArgs,
                                !.call.fetch = "none",
                                !.payload = NoPayload]
    /\ last' = [last EXCEPT !.err = "ConnectionError"]
    /\ UNCHANGED <<heap, chats, metadata, now, nextId, use_chat_history, ret,
                   added, issued, pc, horizon, clock, cache_file,
                   cookie_file>>

\* ... or the task awaiting session.post is cancelled
Cancel ==
    /\ client.call.at = "posted"
    /\ client.call.mode = "async"
    /\ client' = [client EXCEPT !.call.at = "idle", !.call.g = NoGenArgs,
                                !.call.fetch = "none",
                                !.payload = NoPayload]
    /\ last' = [last EXCEPT !.err = "CancelledError"]
    /\ UNCHANGED <<heap, chats, metadata, now, nextId, use_chat_history, ret,
                   added, issued, pc, horizon, clock, cache_file,
                   cookie_file>>

----------------------------------------------------------------------------
(* utils.py: the cookie file.  A cookie string is text; a JSON value is a  *)
(* string or a dict, and a dict is the sequence of its items in insertion  *)
(* order.                                                                  *)

Str(s) == [kind |-> "str", s |-> s]
Dict(items) == [kind |-> "dict", items |-> items]
Item(key, value) == [key |-> key, value |-> value]

\* re.split(r';\s*', s): the pieces between the semicolons, each semicolon
\* taken with the whitespace that follows it
RECURSIVE re_split(_)
re_split(s) ==
    LET i == First({j \in 1..Len(s) : s[j] = ";"})
        e == First({j \in (i + 1)..(Len(s) + 1) :
                      j = Len(s) + 1 \/ s[j] \notin Whitespace})
    IN IF i = 0 THEN <<s>>
       ELSE <<SubSeq(s, 1, i - 1)>> \o re_split(SubSeq(s, e, Len(s)))

\* item.split('=', 1) for an item that holds a '='
split_once(item) ==
    LET i == First({j \in 1..Len(item) : item[j] = "="})
    IN Item(SubSeq(item, 1, i - 1), Str(SubSeq(item, i + 1, Len(item))))

\* d[key] = value: a key the dict holds keeps its place
dict_set(d, key, value) ==
    IF \E i \in 1..Len(d) : d[i].key = key
    THEN [i \in 1..Len(d) |->
             IF d[i].key = key THEN Item(key, value) ELSE d[i]]
    ELSE Append(d, Item(key, value))

\* dict(item.split('=', 1) for item in items if '=' in item), from d on
RECURSIVE dict_of(_, _)
dict_of(items, d) ==
    IF items = <<>> THEN d
    ELSE LET item == Head(items)
             holds == \E j \in 1..Len(item) : item[j] = "="
         IN dict_of(Tail(items),
                    IF holds
                    THEN dict_set(d, split_once(item).key,
                                  split_once(item).value)
                    ELSE d)

\* cookie_dict of parse_and_save_cookies and of validate_cookie
cookie_dict(cookie_string) == dict_of(re_split(cookie_string), <<>>)

\* repr(v), which str(v) is for a dict; quote is ' for repr and " for
\* json.dumps
RECURSIVE written(_, _), written_items(_, _, _)
written(v, quote) ==
    IF v.kind = "str" THEN <<quote>> \o v.s \o <<quote>>
    ELSE <<"{">> \o written_items(v.items, 1, quote) \o <<"}">>

written_items(items, i, quote) ==
    IF i > Len(items) THEN <<>>
    ELSE (IF i > 1 THEN <<",", " ">> ELSE <<>>)
         \o <<quote>> \o items[i].key \o <<quote, ":", " ">>
         \o written(items[i].value, quote)
         \o written_items(items, i + 1, quote)

\* f"{value}"
format(v) == IF v.kind = "str" THEN v.s ELSE written(v, "'")

\* '; '.join(f"{key}={value}" for key, value in cookies.items())
RECURSIVE join(_, _)
join(items, i) ==
    IF i > Len(items) THEN <<>>
    ELSE (IF i > 1 THEN <<";", " ">> ELSE <<>>)
         \o items[i].key \o <<"=">> \o format(items[i].value)
         \o join(items, i + 1)

\* json.dump(value, file): the layout of the text (indent) is left out
json_dump(value) ==
    [exists |-> TRUE, text |-> written(value, "\""), json |-> TRUE,
     value |-> value]

\* a file with a text that is no JSON document
RawFile(text) ==
    [exists |-> TRUE, text |-> text, json |-> FALSE, value |-> <<>>]

\* file.read() with the file read up to pos
read(file, pos) == SubSeq(file.text, pos + 1, Len(file.text))

\* load_cookies(file_path).  json.load reads the file to its end before it
\* decodes, so the read() of the except branch starts there.  A document
\* that is no dict has no items(): AttributeError.
load_cookies(file) ==
    IF ~file.exists THEN [val |-> <<>>, err |-> "FileNotFoundError"]
    ELSE LET pos == Len(file.text) IN
         IF ~file.json
         THEN [val |-> strip(read(file, pos)), err |-> "None"]
         ELSE IF file.value.kind # "dict"
         THEN [val |-> <<>>, err |-> "AttributeError"]
         ELSE [val |-> join(file.value.items, 1), err |-> "None"]

\* datetime.utcnow().isoformat()
isoformat(t) == <<ToString(t)>>

\* parse_and_save_cookies(cookie_string, file_path) at time t
parse_and_save_cookies(cookie_string, t) ==
    LET cookie_data ==
            Dict(<<Item(<<"cookies">>, Dict(cookie_dict(cookie_string))),
                   Item(<<"metadata">>,
                        Dict(<<Item(<<"created_at">>, Str(isoformat(t))),
                               Item(<<"last_modified">>,
                                    Str(isoformat(t)))>>))>>)
    IN [file |-> json_dump(cookie_data),
        val |-> cookie_dict(cookie_string), err |-> "None"]

required_fields ==
    {<<"sessionId">>, <<"__Host-authjs.csrf-token">>,
     <<"__Secure-authjs.session-token">>}

\* validate_cookie(cookie_string)
validate_cookie(cookie_string) ==
    LET d == cookie_dict(cookie_string)
    IN required_fields \subseteq {d[i].key : i \in 1..Len(d)}

\* AIClient._handle_missing_cookies(cookie_file) with the string the user
\* types
_handle_missing_cookies(c, cookie_string, t) ==
    IF ~validate_cookie(cookie_string)
    THEN [c |-> c, file |-> NoCookies, err |-> "ValueError"]
    ELSE LET p == parse_and_save_cookies(cookie_string, t)
             l == load_cookies(p.file)
         IN [c |-> IF l.err = "None"
                   THEN [c EXCEPT !.cookie = [set |-> TRUE, val |-> l.val]]
                   ELSE c,
             file |-> p.file, err |-> l.err]

\* AIClient._setup_authentication(cookie_file); given: the caller named a
\* file
_setup_authentication(c, file, given, cookie_string, t) ==
    LET l == load_cookies(file) IN
    IF l.err = "FileNotFoundError" /\ ~given
    THEN _handle_missing_cookies(c, cookie_string, t)
    ELSE [c |-> IF l.err = "None"
                THEN [c EXCEPT !.cookie = [set |-> TRUE, val |-> l.val]]
                ELSE c,
          file |-> file, err |-> l.err]

\* load_cookies(path)
LoadCookies ==
    /\ LET l == load_cookies(cookie_file) IN
       /\ ret' = [kind |-> "str", val |-> l.val, h |-> 0]
       /\ Called("load_cookies", 0, "", NoArg, l.err)
    /\ UNCHANGED <<heap, chats, metadata, now, nextId, use_chat_history,
                   added, issued, pc, horizon, client, clock, cache_file,
                   cookie_file>>

\* parse_and_save_cookies(cookie_string, path)
ParseAndSaveCookies(cookie_string) ==
    /\ InTime
    /\ LET p == parse_and_save_cookies(cookie_string, now) IN
       /\ cookie_file' = p.file
       /\ ret' = [kind |-> "dict", val |-> p.val, h |-> 0]
       /\ Called("parse_and_save_cookies", 0, "", NoArg, p.err)
    /\ now' = now + 1
    /\ UNCHANGED <<heap, chats, metadata, nextId, use_chat_history, added,
                   issued, pc, horizon, client, clock, cache_file>>

\* AIClient(cookie_file=...) in a process that holds no chat: the headers,
\* _setup_authentication, then _load_validated_from_cache; an error of
\* _setup_authentication leaves no client.  The file the user was asked
\* for stays written when the load after it fails.
Construct(given, cookie_string) ==
    /\ InTime
    /\ heap = <<>>
    /\ LET r == _setup_authentication(NoClient, cookie_file, given,
                                      cookie_string, now)
           asked == ~given /\ ~cookie_file.exists
       IN /\ client' = IF r.err # "None" THEN client
                       ELSE _load_validated_from_cache(r.c, cache_file, clock)
          /\ cookie_file' = IF r.err = "ValueError" THEN cookie_file
                            ELSE r.file
          /\ Called(IF asked THEN "_handle_missing_cookies"
                    ELSE "_setup_authentication", 0, "",
                    [content |-> cookie_string, role |-> "",
                     image |-> NoImage], r.err)
    /\ now' = now + 1
    /\ UNCHANGED <<heap, chats, metadata, nextId, use_chat_history, ret,
                   added, issued, pc, horizon, clock, cache_file>>

\* the user writes, replaces or removes the cookie file
PutCookies(file) ==
    /\ cookie_file' = file
    /\ Called("open", 0, "", NoArg, "None")
    /\ UNCHANGED <<heap, chats, metadata, now, nextId, use_chat_history, ret,
                   added, issued, pc, horizon, client, clock, cache_file>>

----------------------------------------------------------------------------
(* Spec: the calls that change the store, on Chats obtained from it, one   *)
(* at a time                                                               *)

Next ==
    \/ \E id \in Keys : GetOrCreateChat(id)
    \/ \E h \in Handles, arg \in Args : AddMessage(h, arg)
    \/ \E h \in Handles : ClearHistory(h)
    \/ \E h \in Handles : SaveChat(h)
    \/ SaveChatInvalid
    \/ \E id \in Keys : DeleteChat(id)
    \/ ClearAll
    \/ \E key \in Keys : ClearChatHistory(key)

Spec == Init /\ [][Next]_vars

----------------------------------------------------------------------------
(* SpecDirect: Chats constructed by the application on a DictDatabase,     *)
(* next to Chats obtained from it; no chat is deleted                      *)

Said == {[content |-> <<"h">>, role |-> "user", image |-> NoImage],
         [content |-> <<"o", "k">>, role |-> "assistant", image |-> NoImage]}

NextDirect ==
    \/ \E id \in Keys : NewChat(id)
    \/ \E id \in Keys : GetOrCreateChat(id)
    \/ \E h \in Handles, arg \in Said : AddMessage(h, arg)
    \/ \E h \in Handles : GetMessages(h)

SpecDirect == Init /\ [][NextDirect]_vars

----------------------------------------------------------------------------
(* SpecMessage: messages of a conversation written out with to_dict() and  *)
(* built again from the dict.  The package has no function that reads the  *)
(* dict back: the caller reads the keys to_dict() wrote and passes content, *)
(* role and image to the constructor, which gives the new Message an id    *)
(* and a timestamp of its own.                                             *)

\* the image a reader finds in the dict: data.imageBase64, or none when
\* the dict has no data
image_in(d) ==
    IF "data" \in DOMAIN d THEN d.data.imageBase64 ELSE NoImage

\* chat.get_messages()[i].to_dict()
ToDict(h, i) ==
    /\ ret' = [kind |-> "dict", val |-> to_dict(heap[h].messages[i]), h |-> 0]
    /\ Called("to_dict", h, heap[h].chat_id,
              [content |-> heap[h].messages[i].content,
               role |-> heap[h].messages[i].role,
               image |-> heap[h].messages[i].image], "None")
    /\ UNCHANGED <<heap, chats, metadata, now, nextId, use_chat_history,
                   added, issued, pc, horizon, client, clock, cache_file,
                   cookie_file>>

\* Message(content=d["content"], role=d["role"], image=...) for the dict
\* returned last
FromDict ==
    /\ ret.kind = "dict"
    /\ InTime
    /\ ret' = [kind |-> "message",
               val |-> Message([content |-> ret.val.content,
                                role |-> ret.val.role,
                                image |-> image_in(ret.val)], nextId, now),
               h |-> 0]
    /\ last' = [last EXCEPT !.op = "Message", !.err = "None"]
    /\ nextId' = nextId + 1
    /\ now' = now + 1
    /\ UNCHANGED <<heap, chats, metadata, use_chat_history, added, issued, pc,
                   horizon, client, clock, cache_file, cookie_file>>

WithImage == [content |-> <<"h">>, role |-> "user", image |-> EncodedImage]

NextMessage ==
    \/ GetOrCreateChat("default")
    \/ \E h \in Handles, arg \in Args \cup {WithImage} : AddMessage(h, arg)
    \/ \E h \in Handles, i \in 1..MAX_MESSAGES :
          i <= Len(heap[h].messages) /\ ToDict(h, i)
    \/ FromDict

SpecMessage == Init /\ [][NextMessage]_vars

----------------------------------------------------------------------------
(* SpecCookies: the cookie file written by the user and by                 *)
(* parse_and_save_cookies, read by load_cookies and by the constructor of  *)
(* the client                                                              *)

\* the cookies of the tests, and the same with a flag, a repeated name and
\* no blank after the semicolons
Cookies ==
    <<Item(<<"sessionId">>, Str(<<"a">>)),
      Item(<<"__Host-authjs.csrf-token">>, Str(<<"b">>)),
      Item(<<"__Secure-authjs.session-token">>, Str(<<"c">>))>>

CookieStrings ==
    {join(Cookies, 1),
     <<"sessionId", "=", "a", ";", "__Host-authjs.csrf-token", "=", "b", ";",
       "__Secure-authjs.session-token", "=", "c">>,
     <<"sessionId", "=", "a", ";", " ", "Secure", ";", " ",
       "__Host-authjs.csrf-token", "=", "b", ";", " ", "sessionId", "=",
       "z", "=", "z", ";", " ", "__Secure-authjs.session-token", "=", "c">>,
     <<"sessionId", "=", "a">>}

\* no file; a JSON map of names to values; raw cookie strings, plain and
\* with blanks and a newline around; a JSON document that is no map
CookieFiles ==
    {NoCookies,
     json_dump(Dict(Cookies)),
     RawFile(<<"k", "=", "v", ";", " ", "k2", "=", "v2">>),
     RawFile(<<" ">> \o join(Cookies, 1) \o <<"\n">>),
     json_dump(Str(<<"k", "=", "v">>))}

NextCookies ==
    \/ \E file \in CookieFiles : PutCookies(file)
    \/ LoadCookies
    \/ \E cookie_string \in CookieStrings :
          ParseAndSaveCookies(cookie_string)
    \/ \E given \in BOOLEAN, cookie_string \in CookieStrings :
          Construct(given, cookie_string)

SpecCookies == Init /\ [][NextCookies]_vars

----------------------------------------------------------------------------
(* SpecLong: one conversation, long enough to fill the deque *)

InitLong ==
    /\ InitCommon
    /\ horizon = MaxLong

NextLong ==
    \/ GetOrCreateChat("default")
    \/ \E h \in Handles : AddMessage(h, DefaultArg)
    \/ \E h \in Handles : ClearHistory(h)

SpecLong == InitLong /\ [][NextLong]_vars

----------------------------------------------------------------------------
(* SpecRead: reading a conversation while it changes *)

NextRead ==
    \/ GetOrCreateChat("default")
    \/ \E h \in Handles : AddMessage(h, DefaultArg)
    \/ \E h \in Handles : ClearHistory(h)
    \/ \E id \in Keys : GetChat(id)
    \/ \E h \in Handles : GetMessages(h)
    \/ \E h \in Handles : GetMessagesAsync(h)
    \/ MutateReturned

SpecRead == Init /\ [][NextRead]_vars

----------------------------------------------------------------------------
(* SpecAsync: the sync and the async methods of a Chat side by side *)

NextAsync ==
    \/ GetOrCreateChat("default")
    \/ \E h \in Handles, arg \in Args : AddMessage(h, arg)
    \/ \E h \in Handles, arg \in Args : AddMessageAsync(h, arg)
    \/ \E h \in Handles : ClearHistory(h)
    \/ \E h \in Handles : ClearHistoryAsync(h)
    \/ \E h \in Handles : GetMessages(h)
    \/ \E h \in Handles : GetMessagesAsync(h)

SpecAsync == Init /\ [][NextAsync]_vars

----------------------------------------------------------------------------
(* SpecStore: looking chats up while they are created, written and deleted *)

NextStore ==
    \/ \E id \in Keys : GetOrCreateChat(id)
    \/ \E h \in Handles : AddMessage(h, DefaultArg)
    \/ \E id \in Keys : DeleteChat(id)
    \/ \E id \in AllIds : GetChat(id)

SpecStore == Init /\ [][NextStore]_vars

----------------------------------------------------------------------------
(* SpecGen: completion calls of one client, one after the other *)

InitGen ==
    /\ InitCommon
    /\ horizon = MaxGen

NextGen ==
    \/ \E mode \in Modes, g \in GenArgs, fetched \in {"None", Token} :
          Generate(mode, g, fetched)
    \/ \E response \in Responses : Respond(response)
    \/ TransportFail
    \/ Cancel

SpecGen == InitGen /\ [][NextGen]_vars

----------------------------------------------------------------------------
(* SpecFacade: one client used from blocking code and from coroutines *)

\* completions.create called from a coroutine, that is while an event loop
\* runs in the calling thread: asyncio.run in _generate raises RuntimeError
\* before _prepare_payload has run a single step
CreateInLoop(g) ==
    /\ client.call.at = "idle"
    /\ Called("_generate", 0, "", [content |-> g.message, role |-> "user",
                                   image |-> g.image], "RuntimeError")
    /\ UNCHANGED <<heap, chats, metadata, now, nextId, use_chat_history, ret,
                   added, issued, pc, horizon, client,
                   clock, cache_file, cookie_file>>

NextFacade ==
    \/ \E mode \in Modes, g \in GenArgs, fetched \in {"None", Token} :
          Generate(mode, g, fetched)
    \/ \E g \in GenArgs : CreateInLoop(g)
    \/ \E response \in {OkResponse, NotFoundResponse} : Respond(response)
    \/ TransportFail

SpecFacade == InitGen /\ [][NextFacade]_vars

----------------------------------------------------------------------------
(* SpecBackend: completions whose store fails.  DictDatabase.save_chat      *)
(* raises DatabaseError for a chat id without a metadata entry: the id of   *)
(* the Chat a client without chat history builds, and the id of a chat that *)
(* was deleted while the request of the call was out.                       *)

\* client.delete_chat(agent), called by another coroutine or thread while
\* the request is out
DeleteChatMeanwhile(key) ==
    /\ client.call.at = "posted"
    /\ SetWorld(delete_chat(World, key))
    /\ issued' = [issued EXCEPT ![key] = 0]
    /\ UNCHANGED <<now, nextId, use_chat_history, ret, last, added, pc,
                   horizon, client,
                   clock, cache_file, cookie_file>>

Plain(agent) ==
    [message |-> Hi, agent |-> agent, model |-> BLACKBOX, max_tokens |-> 1024,
     image |-> NoImage]

InitBackend == \E history \in BOOLEAN : InitWith(history, MaxGen, NoFile, 0)

NextBackend ==
    \/ \E mode \in Modes, agent \in Agents, fetched \in {"None", Token} :
          Generate(mode, Plain(agent), fetched)
    \/ \E response \in {OkResponse, NotFoundResponse} : Respond(response)
    \/ TransportFail
    \/ \E key \in Keys : DeleteChatMeanwhile(key)

SpecBackend == InitBackend /\ [][NextBackend]_vars

----------------------------------------------------------------------------
(* SpecToken: the validated value over the hours.  The client is built in  *)
(* a directory that holds no cache file, an unreadable one, or one written *)
(* at hour 0; other clients of the process share the file.                 *)

\* an hour passes
Elapse ==
    /\ clock < MaxClock
    /\ clock' = clock + 1
    /\ UNCHANGED <<heap, chats, metadata, now, nextId, use_chat_history, ret,
                   last, added, issued, pc, horizon, client, cache_file,
                   cookie_file>>

\* another AIClient of the process fetched a token from the site, which
\* ends with _save_validated_to_cache on the same file
SaveByOther ==
    /\ cache_file' = _save_validated_to_cache(Token, clock)
    /\ UNCHANGED <<heap, chats, metadata, now, nextId, use_chat_history, ret,
                   last, added, issued, pc, horizon, client, clock,
                   cookie_file>>

InitToken ==
    \E file \in {NoFile, Corrupt, _save_validated_to_cache(Stored, 0)},
       hour \in 0..MaxClock :
        InitWith(TRUE, MaxGen, file, hour)

NextToken ==
    \/ \E mode \in Modes, site \in Sites, agent \in {NoAgent} :
          Generate(mode, Plain(agent), live_fetch(site))
    \/ Respond(OkResponse)
    \/ Elapse
    \/ SaveByOther

SpecToken == InitToken /\ [][NextToken]_vars

----------------------------------------------------------------------------
(* SpecKeys: the operations of one client, with and without an agent, one  *)
(* call after the other                                                    *)

NextKeys ==
    \/ \E mode \in Modes, agent \in Agents, fetched \in {"None", Token} :
          Generate(mode, Plain(agent), fetched)
    \/ Respond(OkResponse)
    \/ \E key \in Keys : client.call.at = "idle" /\ GetChatHistory(key)
    \/ \E key \in Keys : client.call.at = "idle" /\ ClearChatHistory(key)
    \/ \E key \in Keys : client.call.at = "idle" /\ ClientDeleteChat(key)

SpecKeys == InitGen /\ [][NextKeys]_vars

----------------------------------------------------------------------------
(* SpecTasks: completions.create_async called by several tasks of one      *)
(* event loop on one client.  A task runs until it awaits something that   *)
(* is not ready: the live token fetch (only a client that holds no value   *)
(* makes one) and the response to its post.  Blocking calls are made while *)
(* no task is under way.                                                   *)

\* aiohttp.ClientSession(headers=self.headers): the session sends a copy of
\* the headers, taken when it is constructed
ClientSession(c) == [referer |-> c.referer]

\* the request of a task: the headers of its session and the payload
Posted(t, g, h, mid, c, request) ==
    [at |-> "posted", id |-> "", result |-> 0, g |-> g, h |-> h, mid |-> mid,
     sent |-> [headers |-> ClientSession(c), payload |-> request]]

\* a task calls create_async and runs up to its first suspension
Start(t, g) ==
    /\ pc[t].at = "idle"
    /\ client.call.at = "idle"
    /\ InTime
    /\ chats[IF g.agent = NoAgent THEN "default" ELSE g.agent] = 0
       => CanConstruct
    /\ LET b == _prepare_payload_chat(World, encoded("async", g), nextId, now)
           created == Len(b.w.heap) > Len(heap)
           f == _fetch_validated(client, cache_file, "None", clock)
           r == _prepare_payload_rest(b.w, f, b.h, encoded("async", g))
       IN /\ SetWorld(b.w)
          /\ added' = IF created THEN Append(added, <<nextId>>)
                      ELSE [added EXCEPT ![b.h] = Append(@, nextId)]
          /\ issued' = [issued EXCEPT ![b.w.heap[b.h].chat_id] = b.h]
          /\ now' = IF created THEN now + 2 ELSE now + 1
          /\ IF client.validated # "None"
             THEN /\ client' = r.c
                  /\ pc' = [pc EXCEPT ![t] =
                               Posted(t, g, b.h, nextId, r.c, r.payload)]
             ELSE /\ client' = client
                  /\ pc' = [pc EXCEPT ![t] =
                               [at |-> "fetching", id |-> "", result |-> 0,
                                g |-> g, h |-> b.h, mid |-> nextId]]
    /\ nextId' = nextId + 1
    /\ UNCHANGED <<use_chat_history, ret, last, horizon, clock, cache_file,
                   cookie_file>>

\* the live fetch of a task ends, and the task runs on to its post
Fetched(t, fetched) ==
    /\ pc[t].at = "fetching"
    /\ LET f == _fetch_validated_live(client, cache_file, fetched, clock)
           r == _prepare_payload_rest(World, f, pc[t].h,
                                      encoded("async", pc[t].g))
       IN /\ client' = r.c
          /\ cache_file' = f.file
          /\ pc' = [pc EXCEPT ![t] =
                       Posted(t, pc[t].g, pc[t].h, pc[t].mid, r.c, r.payload)]
    /\ UNCHANGED <<heap, chats, metadata, now, nextId, use_chat_history, ret,
                   last, added, issued, horizon, clock, cookie_file>>

\* the response to the post of a task arrives, and the task runs to its end
Answered(t, response) ==
    /\ pc[t].at = "posted"
    /\ LET r == _generate_async(World, pc[t].h, response, nextId, now)
           appended == r.w.heap # heap
       IN /\ appended => InTime
          /\ SetWorld(r.w)
          /\ added' = IF appended
                      THEN [added EXCEPT ![pc[t].h] = Append(@, nextId)]
                      ELSE added
          /\ nextId' = IF appended THEN nextId + 1 ELSE nextId
          /\ now' = IF appended THEN now + 1 ELSE now
    /\ pc' = [pc EXCEPT ![t] = Idle]
    /\ UNCHANGED <<use_chat_history, ret, last, issued, horizon, client,
                   clock, cache_file, cookie_file>>

NextTasks ==
    \/ \E t \in Threads, agent \in Agents : Start(t, Plain(agent))
    \/ \E t \in Threads, fetched \in {"None", Token} : Fetched(t, fetched)
    \/ \E t \in Threads, response \in {OkResponse, NotFoundResponse} :
          Answered(t, response)
    \/ \E agent \in Agents, fetched \in {"None", Token} :
          /\ \A t \in Threads : pc[t].at = "idle"
          /\ Generate("sync", Plain(agent), fetched)
    \/ \E response \in {OkResponse, NotFoundResponse} : Respond(response)

SpecTasks == InitGen /\ [][NextTasks]_vars

----------------------------------------------------------------------------
(* SpecGenLong: enough completions to fill the histories *)

NextGenLong ==
    \/ \E mode \in Modes, max_tokens \in MaxTokens,
          fetched \in {"None", Token} :
          Generate(mode,
                   [message |-> Hi, agent |-> NoAgent, model |-> BLACKBOX,
                    max_tokens |-> max_tokens, image |-> NoImage],
                   fetched)
    \/ Respond(OkResponse)

SpecGenLong == InitLong /\ [][NextGenLong]_vars

----------------------------------------------------------------------------
(* SpecThreads: get_or_create_chat called from several threads of one      *)
(* process.  A thread switch can fall between any two statements of the    *)
(* method: the membership test, the store into chats, the store into       *)
(* metadata and the final lookup are separate steps.                       *)

Call(t, id) ==
    /\ pc[t].at = "idle"
    /\ pc' = [pc EXCEPT ![t] = [at |-> "check", id |-> id, result |-> 0]]
    /\ UNCHANGED <<heap, chats, metadata, now, nextId, use_chat_history, ret,
                   last, added, issued, horizon, client,
                   clock, cache_file, cookie_file>>

\* if chat_id not in self.chats:
Check(t) ==
    /\ pc[t].at = "check"
    /\ pc' = [pc EXCEPT ![t].at =
                 IF chats[pc[t].id] = 0 THEN "create" ELSE "return"]
    /\ UNCHANGED <<heap, chats, metadata, now, nextId, use_chat_history, ret,
                   last, added, issued, horizon, client,
                   clock, cache_file, cookie_file>>

\* self.chats[chat_id] = Chat(self, chat_id)
Create(t) ==
    /\ pc[t].at = "create"
    /\ InTime
    /\ CanConstruct
    /\ SetWorld(create_chat(World, pc[t].id, now))
    /\ added' = Append(added, <<>>)
    /\ now' = now + 1
    /\ pc' = [pc EXCEPT ![t].at = "meta"]
    /\ UNCHANGED <<nextId, use_chat_history, ret, last, issued, horizon, client,
                   clock, cache_file, cookie_file>>

\* self.metadata[chat_id] = {...}
Meta(t) ==
    /\ pc[t].at = "meta"
    /\ SetWorld(create_meta(World, pc[t].id, now))
    /\ pc' = [pc EXCEPT ![t].at = "return"]
    /\ UNCHANGED <<now, nextId, use_chat_history, ret, last, added, issued,
                   horizon, client,
                   clock, cache_file, cookie_file>>

\* return self.chats[chat_id]
Return(t) ==
    /\ pc[t].at = "return"
    /\ pc' = [pc EXCEPT ![t].at = "idle", ![t].result = chats[pc[t].id]]
    /\ issued' = [issued EXCEPT ![pc[t].id] = chats[pc[t].id]]
    /\ UNCHANGED <<heap, chats, metadata, now, nextId, use_chat_history, ret,
                   last, added, horizon, client,
                   clock, cache_file, cookie_file>>

NextThreads ==
    \E t \in Threads :
        \/ \E id \in Keys : Call(t, id)
        \/ Check(t)
        \/ Create(t)
        \/ Meta(t)
        \/ Return(t)

SpecThreads == Init /\ [][NextThreads]_vars

----------------------------------------------------------------------------
(* Properties *)

Min(a, b) == IF a <= b THEN a ELSE b
Ids(q) == [i \in 1..Len(q) |-> q[i].id]
LastN(q, n) == SubSeq(q, Len(q) - n + 1, Len(q))

\* C1: after N add_message calls on one Chat with no clear_history between
\* them, none of which raised, get_messages() is exactly the last
\* min(N, 25) messages added, oldest first: beyond 25 each append evicts
\* only the oldest message, and no append raises.
C1_BoundedHistory ==
    /\ \A h \in Handles :
          Ids(get_messages(heap[h])) =
              LastN(added[h], Min(Len(added[h]), MAX_MESSAGES))
    /\ last.op = "add_message" => last.err = "None"

C1_Witness ==
    \E h \in Handles :
        /\ Len(added[h]) > MAX_MESSAGES + 1
        /\ last.op = "add_message"
        /\ last.h = h

\* C2: while an id is not deleted (delete_chat, clear_all), every
\* get_or_create_chat(id) returns the same Chat, so that a message added
\* through one returned reference is seen through the other.
C2_SameChat ==
    [][\A id \in Keys :
          (issued[id] # 0 /\ issued'[id] # 0) => issued'[id] = issued[id]]_vars

\* C3: however the statements of concurrent get_or_create_chat(id) calls
\* interleave, at most one Chat is ever registered for an id and all callers
\* of the same id receive the same Chat.
C3_AtomicRegistration ==
    /\ \A id \in Keys :
          Cardinality({h \in Handles : heap[h].chat_id = id}) <= 1
    /\ \A t1, t2 \in Threads :
          (pc[t1].result # 0 /\ pc[t2].result # 0 /\ pc[t1].id = pc[t2].id)
              => pc[t1].result = pc[t2].result

ValidArg(arg) ==
    ~IsBlank(arg.content) /\ arg.role \in {"user", "assistant"}

\* C4: two add_message calls with valid arguments on the same chat id, one
\* after the other (serialized), through Chats obtained from the backend,
\* both succeeding, leave both messages in the backend's stored chat.
C4_NoLostUpdate ==
    [][\A h \in Handles, arg \in Args :
          (/\ last.op = "add_message"
           /\ last.err = "None"
           /\ ValidArg(last.arg)
           /\ last.id = heap[h].chat_id
           /\ ValidArg(arg)
           /\ AddMessage(h, arg)
           /\ last'.err = "None")
          => LET stored == Ids(get_messages(heap'[chats'[heap[h].chat_id]]))
             IN  \A mid \in {nextId - 1, nextId} :
                    \E i \in 1..Len(stored) : stored[i] = mid]_vars

\* C5: add_message with empty or whitespace-only content fails with an
\* invalid-argument error and leaves the history and the store unchanged.
C5_BlankRejected ==
    [][\A h \in Handles, arg \in Args :
          (AddMessage(h, arg) /\ IsBlank(arg.content))
          => (last'.err = "InvalidArgument"
              /\ UNCHANGED <<heap, chats, metadata>>)]_vars

\* C6: every message held in any Chat has role user or assistant, and an
\* add_message with another role ended with an invalid-argument error.
C6_RolesValid ==
    /\ \A h \in Handles :
          \A i \in 1..Len(heap[h].messages) :
              heap[h].messages[i].role \in {"user", "assistant"}
    /\ (last.op = "add_message" /\ last.arg.role \notin {"user", "assistant"})
       => last.err = "InvalidArgument"

\* C7: after a successful add_message or clear_history the Chat's own
\* metadata has message_count equal to the number of retained messages and
\* last_updated equal to the time of that call.
C7_ChatMetadata ==
    (last.op \in {"add_message", "clear_history"} /\ last.err = "None")
    => /\ heap[last.h].metadata.message_count = Len(heap[last.h].messages)
       /\ heap[last.h].metadata.last_updated = now - 1

\* C8: get_chat_metadata(id)['message_count'] is 0 right after
\* get_or_create_chat created the chat, right after every add_message,
\* clear_history or save_chat on a Chat that did not raise it equals
\* len(chat.get_messages()), and at all times it equals the length of the
\* Chat stored under the id.
C8_MetadataCount ==
    /\ \A id \in AllIds :
          (chats[id] # 0 /\ metadata[id].present)
          => metadata[id].message_count =
                Len(get_messages(heap[chats[id]]))
    /\ (last.op = "get_or_create_chat" /\ last.created)
       => (metadata[last.id].present /\ metadata[last.id].message_count = 0)
    /\ (/\ last.op \in {"add_message", "clear_history", "save_chat"}
        /\ last.err = "None")
       => /\ metadata[last.id].present
          /\ metadata[last.id].message_count =
                Len(get_messages(heap[last.h]))

C8_Witness ==
    /\ last.op = "add_message"
    /\ last.err = "None"
    /\ metadata[last.id].message_count = 2

\* C9: the sequence get_messages / get_messages_async returned is a
\* snapshot: a later add_message or clear_history does not change what the
\* caller reads from it, and clearing it does not change any Chat's history.
C9_Snapshot ==
    [][/\ (ret.kind # "none" /\ last'.op \in {"add_message", "clear_history"})
          => Returned' = Returned
       /\ MutateReturned
          => \A h \in Handles : heap'[h].messages = heap[h].messages]_vars

\* C10: after clear_history (also through AIClient.clear_chat_history) the
\* Chat has no messages, keeps its chat_id, is the Chat stored under that id,
\* and the id's metadata, when the id has any, counts 0 messages; the call
\* raises only when the id has no metadata entry.
C10_ClearHistory ==
    last.op \in {"clear_history", "clear_chat_history"}
    => /\ get_messages(heap[last.h]) = <<>>
       /\ heap[last.h].chat_id = last.id
       /\ chats[last.id] = last.h
       /\ metadata[last.id].present
          => (last.err = "None" /\ metadata[last.id].message_count = 0)
       /\ ~metadata[last.id].present => last.err = "DatabaseError"

C10_Witness ==
    /\ last.op = "clear_history"
    /\ last.err = "None"
    /\ metadata[last.id].last_updated > metadata[last.id].created_at
    /\ nextId > 2

\* C11: add_message_async, clear_history_async and get_messages_async do
\* what add_message, clear_history and get_messages do on the same Chat with
\* the same arguments (an image included): the same history, the same
\* stored chats and metadata, the same outcome (return or error), the same
\* returned messages.
C11_AsyncEquivalent ==
    [][\A h \in Handles :
          /\ \A arg \in Args :
                AddMessageAsync(h, arg)
                => LET r == add_message(World, h, arg, nextId, now)
                   IN /\ heap' = r.w.heap
                      /\ chats' = r.w.chats
                      /\ metadata' = r.w.metadata
                      /\ last'.err = r.err
          /\ ClearHistoryAsync(h)
             => LET r == clear_history(World, h, now)
                IN /\ heap' = r.w.heap
                   /\ chats' = r.w.chats
                   /\ metadata' = r.w.metadata
                   /\ last'.err = r.err
          /\ GetMessagesAsync(h)
             => /\ ret'.kind = "list"
                /\ Returned' = get_messages(heap[h])]_vars

\* C12: get_chat(id) returns the Chat registered under id, whose chat_id is
\* id, and None when none is registered (an id never created, a deleted id);
\* it registers nothing: list_chats(), the metadata and every Chat are as
\* before the call.
C12_GetChatFrame ==
    [][\A id \in AllIds :
          GetChat(id)
          => /\ last'.err = "None"
             /\ last'.h = chats[id]
             /\ last'.h # 0 => heap[last'.h].chat_id = id
             /\ id \notin list_chats(World) => last'.h = 0
             /\ list_chats(World') = list_chats(World)
             /\ \A i \in AllIds :
                   get_chat_metadata(World', i) = get_chat_metadata(World, i)
             /\ UNCHANGED <<heap, chats, metadata>>]_vars

\* get_chat returned None for an id that was created and then deleted
C12_Witness ==
    /\ last.op = "get_chat"
    /\ last.h = 0
    /\ \E h \in Handles : heap[h].chat_id = last.id
    /\ \E id \in Keys : chats[id] # 0

\* C13: delete_chat(id) raises nothing; on an id that is absent (never
\* created, already deleted) it leaves chats and metadata as they were; after
\* it get_chat(id) is None, id is not in list_chats() and
\* get_chat_metadata(id) is None.
C13_DeleteIdempotent ==
    [][\A id \in Keys :
          DeleteChat(id)
          => /\ last'.err = "None"
             /\ get_chat(World, id).h = 0
                => UNCHANGED <<heap, chats, metadata>>
             /\ get_chat(World', id).h = 0
             /\ id \notin list_chats(World')
             /\ get_chat_metadata(World', id) = NoMeta]_vars

\* delete_chat ran on an id that was never created, next to a stored chat
C13_Witness ==
    /\ last.op = "delete_chat"
    /\ \A h \in Handles : heap[h].chat_id # last.id
    /\ \E id \in Keys : chats[id] # 0 /\ metadata[id].message_count > 0

\* C14: in the payload of a completion request userSelectedModel is None
\* when an image is attached, else None when an agent is given, else None
\* when the model is BLACKBOX, and model.id otherwise.
C14_UserSelectedModel ==
    client.call.at = "posted"
    => client.payload.userSelectedModel =
          IF client.call.g.image # NoImage THEN "None"
          ELSE IF client.call.g.agent # NoAgent THEN "None"
          ELSE IF client.call.g.model = BLACKBOX THEN "None"
          ELSE client.call.g.model.id

\* a request was sent that names its model
C14_Witness ==
    /\ client.call.at = "posted"
    /\ client.call.g.model = GPT4
    /\ client.payload.userSelectedModel = GPT4.id
    /\ client.payload.agentMode = <<>>

GenOps == {"_generate", "_generate_async"}

\* the messages of the Chat the last completion call worked on
CallMessages == heap[client.call.h].messages

\* the last message of that Chat is the user message of the call: the
\* message passed, then the instruction
EndsWithUser(msgs) ==
    /\ msgs # <<>>
    /\ msgs[Len(msgs)].id = client.call.mid
    /\ msgs[Len(msgs)].role = "user"
    /\ msgs[Len(msgs)].content = client.call.message \o Instruction

\* C15: a completion call that succeeds has appended to the chat, in this
\* order, one user message (the message passed, then the instruction) and one
\* assistant message whose content is the text the call's normalization of
\* the response body produced, and returns that text; nothing else of the
\* history changed.  The assistant message is appended only after the
\* response arrived with success: while the request is out, and after a call
\* that failed, the history ends with the user message.
C15_GenerateOrder ==
    /\ (last.op \in GenOps /\ last.err = "None")
       => LET n == Len(CallMessages)
              normalized ==
                  IF last.op = "_generate"
                  THEN _process_response(Printable(client.response.body))
                  ELSE strip(SubPromoAsync(
                                 SubMarkers(client.response.body, 1), 1))
          IN /\ n >= 2
             /\ client.response.status = 200
             /\ EndsWithUser(SubSeq(CallMessages, 1, n - 1))
             /\ CallMessages[n].id = client.call.mid + 1
             /\ CallMessages[n].role = "assistant"
             /\ CallMessages[n].content = normalized
             /\ client.result = normalized
             /\ SubSeq(CallMessages, 1, n - 2) =
                   LastN(client.call.before, n - 2)
             /\ n = Min(Len(client.call.before) + 2, MAX_MESSAGES)
             /\ nextId = client.call.mid + 2
    /\ (last.op \in GenOps /\ last.err \notin {"None", "DatabaseError"})
       => /\ EndsWithUser(CallMessages)
          /\ nextId = client.call.mid + 1

\* an async call succeeded on a chat that had a message, with a response
\* that holds a marked block
C15_Witness ==
    /\ last.op = "_generate_async"
    /\ last.err = "None"
    /\ client.call.before # <<>>
    /\ client.response.body = Marked
    /\ client.result # Marked

\* C16: the payload of a completion request has id equal to the chat_id of
\* the call's Chat, messages equal to the to_dict() of every message the Chat
\* holds when the request is built, oldest first and at most 25, the last
\* of them the user message this call appended; maxTokens is the max_tokens
\* passed and validated is the token resolved for the call (the one held in
\* memory, else the one the live fetch found, else None).
C16_PayloadHistory ==
    [][\A mode \in Modes, g \in GenArgs, fetched \in {"None", Token} :
          (Generate(mode, g, fetched) /\ client'.call.at = "posted")
          => LET sent == client'.payload
                 chat == heap'[client'.call.h]
                 n == Len(sent.messages)
             IN /\ sent.id = chat.chat_id
                /\ sent.id = IF g.agent = NoAgent THEN "default" ELSE g.agent
                /\ n = Len(chat.messages)
                /\ n >= 1
                /\ n <= MAX_MESSAGES
                /\ \A i \in 1..n : sent.messages[i] = to_dict(chat.messages[i])
                /\ \A i \in 1..(n - 1) :
                      sent.messages[i].id < sent.messages[i + 1].id
                /\ sent.messages[n].id = nextId
                /\ sent.messages[n].role = "user"
                /\ sent.messages[n].content = g.message \o Instruction
                /\ sent.maxTokens = g.max_tokens
                /\ sent.validated = IF client.validated # "None"
                                    THEN client.validated
                                    ELSE fetched]_vars

\* a request was built on a full history, after messages were evicted
C16_Witness ==
    /\ client.call.at = "posted"
    /\ Len(client.payload.messages) = MAX_MESSAGES
    /\ client.payload.messages[1].id > 2
    /\ client.payload.validated = Token

\* C17: a completion call ends with the error "API returned status code"
\* exactly when the response has a status outside 200..299, and that error
\* carries the status and the body of the response.
C17_RemoteError ==
    (last.op \in GenOps /\ client.response # NoResponse)
    => /\ client.raised.message = "API returned status code"
          <=> client.response.status \notin 200..299
       /\ client.raised.message = "API returned status code"
          => /\ last.err = "APIError"
             /\ client.raised.status = client.response.status
             /\ client.raised.body = client.response.body

\* C18: after a completion call that failed once its user message was
\* appended (the server refused, the response could not be used, the
\* connection failed, the task was cancelled) the chat ends with that user
\* message and holds no assistant message of the call, the messages before
\* it are as they were, and the backend holds this Chat under its id with a
\* message count that includes the user message.
C18_NoRollback ==
    (/\ last.op \in GenOps
     /\ last.err \in {"APIError", "ConnectionError", "CancelledError"})
    => LET n == Len(CallMessages)
       IN /\ EndsWithUser(CallMessages)
          /\ \A i \in 1..n : CallMessages[i].id <= client.call.mid
          /\ n = Min(Len(client.call.before) + 1, MAX_MESSAGES)
          /\ SubSeq(CallMessages, 1, n - 1) = LastN(client.call.before, n - 1)
          /\ get_chat(World, last.id).h = client.call.h
          /\ get_chat_metadata(World, last.id).present
          /\ get_chat_metadata(World, last.id).message_count = n

\* an async call was cancelled on a chat that had messages
C18_Witness ==
    /\ last.op = "_generate_async"
    /\ last.err = "CancelledError"
    /\ client.call.before # <<>>
    /\ client.call.at = "idle"

\* where the last line of a text starts if that line begins with the
\* promotional literal (newlines after it aside), 0 if it does not
TrailingPromo(s) ==
    First({j \in 1..Len(rstrip(s)) :
              /\ StartsWith(s, j, PROMO)
              /\ j = 1 \/ s[j - 1] = "\n"
              /\ \A k \in j..Len(rstrip(s)) : s[k] # "\n"})

\* the normalization as stated: marked blocks out, the trailing promotional
\* line out, non-printable characters but the newline out, then trimmed
Normalized(text) ==
    LET unmarked == SubMarkers(text, 1)
        cut == IF TrailingPromo(unmarked) = 0 THEN unmarked
               ELSE SubSeq(unmarked, 1, TrailingPromo(unmarked) - 1)
    IN strip(Printable(cut))

\* C19: a completion call, sync or async, whose response text is blank
\* after normalization fails, and appends no assistant message: the chat
\* ends with the user message of the call.
C19_EmptyResponse ==
    (/\ last.op \in GenOps
     /\ client.response.status = 200
     /\ client.response.decodable
     /\ IsBlank(Normalized(client.response.body)))
    => /\ last.err = "APIError"
       /\ EndsWithUser(CallMessages)

\* C20: the text a successful completion call returns, which is the content
\* of the assistant message it stored, is the normalization of the response
\* body: every block between two $~~~$ markers removed (the nearest closing
\* marker, across newlines), the trailing promotional line removed,
\* non-printable characters other than the newline removed, whitespace
\* trimmed at both ends; "keep $~~~$ link block\nmore$~~~$ tail" gives
\* "keep  tail".
C20_Normalization ==
    /\ Normalized(Marked) =
          <<"k", "e", "e", "p", " ", " ", "t", "a", "i", "l">>
    /\ (last.op \in GenOps /\ last.err = "None")
       => /\ client.result = Normalized(client.response.body)
          /\ CallMessages[Len(CallMessages)].content = client.result

\* a call can start in this state
CanGenerate(g) ==
    /\ client.call.at = "idle"
    /\ InTime
    /\ chats[IF g.agent = NoAgent THEN "default" ELSE g.agent] = 0
       => CanConstruct

\* what a call of the given mode, started in this state and answered with
\* response, sends, returns and leaves in its chat
Outcome(mode, g, fetched, response) ==
    LET p == _prepare_payload(World, client, cache_file, encoded(mode, g),
                              nextId, now, fetched, clock)
        t == IF Len(p.w.heap) > Len(heap) THEN now + 2 ELSE now + 1
        r == IF mode = "sync"
             THEN _generate(p.w, p.h, response, nextId + 1, t)
             ELSE _generate_async(p.w, p.h, response, nextId + 1, t)
    IN [payload |-> p.payload, err |-> r.err, result |-> r.result,
        messages |-> get_messages(r.w.heap[p.h])]

\* C21: for the same arguments, the same starting chat and the same
\* response, completions.create and completions.create_async build the same
\* payload (with the same image on the user message), return the same text
\* or fail alike, and leave the same chat history.
C21_SameSteps ==
    \A g \in GenArgs, fetched \in {"None", Token}, response \in Responses :
        CanGenerate(g)
        => Outcome("sync", g, fetched, response)
              = Outcome("async", g, fetched, response)

\* C22: a client that has served one completion variant does not serve the
\* other: a call of create on a client used through create_async, or of
\* create_async on a client used through create, fails with an
\* unsupported-operation error and leaves every chat and the store as they
\* were.
C22_FacadeSeparation ==
    [][(/\ last.op \in GenOps
        /\ last'.op \in GenOps
        /\ last'.op # last.op)
       => /\ last'.err = "UnsupportedOperation"
          /\ UNCHANGED <<heap, chats, metadata>>]_vars

\* C23: when the store raises while a completion call appends a message,
\* the user message before the request or the assistant message after the
\* response, the call ends with that DatabaseError, and the message was
\* appended once (no second attempt).
C23_BackendError ==
    [][/\ (/\ client.call.at = "idle"
           /\ last'.op \in GenOps
           /\ heap' # heap
           /\ ~get_chat_metadata(World', last'.id).present)
          => /\ last'.err = "DatabaseError"
             /\ client'.call.at = "idle"
             /\ nextId' = nextId + 1
       /\ (/\ client.call.at = "posted"
           /\ client'.call.at = "idle"
           /\ heap' # heap
           /\ ~get_chat_metadata(World, last.id).present)
          => /\ last'.err = "DatabaseError"
             /\ nextId' = nextId + 1]_vars

\* the cache file holds a value that is not older than the TTL
FreshFile ==
    /\ cache_file.present
    /\ cache_file.readable
    /\ clock - cache_file.timestamp <= _validated_cache_ttl

\* a step that takes a completion call up to its request
Requests ==
    /\ client.call.at = "idle"
    /\ client'.call.at = "posted"

\* C24: the validated value of a request is the value the client holds in
\* memory if it holds one; else the value of the cache file if that file is
\* not older than the TTL; else the result of a live fetch, and a token
\* fetched live is in memory and in the cache file, with the hour of the
\* fetch, when the request is sent.
C24_TokenOrder ==
    [][Requests
       => IF client.validated # "None"
          THEN /\ client'.payload.validated = client.validated
               /\ client'.call.fetch = "none"
          ELSE IF FreshFile
          THEN /\ client'.payload.validated = cache_file.value
               /\ client'.call.fetch = "none"
          ELSE /\ client'.call.fetch # "none"
               /\ client'.call.fetch = "ok"
                  => /\ client'.payload.validated # "None"
                     /\ client'.validated = client'.payload.validated
                     /\ cache_file' =
                           _save_validated_to_cache(client'.validated, clock)
               /\ client'.call.fetch = "failed"
                  => client'.payload.validated = "None"]_vars

\* C25: a completion call whose live token fetch failed (the page did not
\* load with status 200, no script held a token, or the connection raised;
\* a fetch is only made by a client that holds no value) is not aborted: it
\* goes on to its request, and the payload of that request has validated
\* null.
C25_FetchFailureDegrades ==
    client.call.fetch = "failed"
    => /\ client.call.at = "posted"
       /\ last.err = "pending"
       /\ client.payload.validated = "None"
       /\ client.validated = "None"

\* a request is out whose token fetch failed, with no cache file around
C25_Witness ==
    /\ client.call.fetch = "failed"
    /\ client.call.at = "posted"
    /\ ~cache_file.present
    /\ client.payload.validated = "None"
    /\ Len(client.payload.messages) > 1

\* C26: a token older than the TTL is not used for a request without a
\* refresh being attempted first, also when it is the value a long-lived
\* client holds in memory: a request made while the value held was fetched
\* more than 4 hours ago attempts a live fetch.
C26_LazyExpiry ==
    [][(/\ Requests
        /\ client.validated # "None"
        /\ clock - client.validated_at > _validated_cache_ttl)
       => client'.call.fetch # "none"]_vars

\* C27: when the refresh of a call fails and an older value exists, in
\* memory or in the cache file (however old), the request is sent with that
\* value, not with null.
C27_StalePreferred ==
    [][(/\ Requests
        /\ client'.call.fetch = "failed"
        /\ \/ client.validated # "None"
           \/ cache_file.present /\ cache_file.readable)
       => client'.payload.validated =
             IF client.validated # "None" THEN client.validated
             ELSE cache_file.value]_vars

\* the key of a call: "default" without an agent, agent.id with one
KeyOf(agent) == IF agent = NoAgent THEN "default" ELSE agent

\* the step leaves every Chat of another id, and the entries of the store
\* under every other id, as they were
OnlyKey(key) ==
    /\ \A h \in Handles : heap[h].chat_id # key => heap'[h] = heap[h]
    /\ \A h \in 1..Len(heap') : h \notin Handles => heap'[h].chat_id = key
    /\ \A id \in AllIds \ {key} :
          /\ chats'[id] = chats[id]
          /\ metadata'[id] = metadata[id]

\* C28: generate, get_chat_history, clear_chat_history and delete_chat act
\* on the chat stored under "default" when called without an agent and on
\* the chat stored under agent.id when called with one, and leave the
\* chats and the store entries of every other key unchanged.
C28_ChatKeying ==
    [][/\ \A mode \in Modes, agent \in Agents, fetched \in {"None", Token} :
             Generate(mode, Plain(agent), fetched)
             => /\ OnlyKey(KeyOf(agent))
                /\ client'.call.h = chats'[KeyOf(agent)]
                /\ client'.payload.id = KeyOf(agent)
                /\ LET new == heap'[client'.call.h].messages
                   IN /\ SubSeq(new, 1, Len(new) - 1) =
                            IF chats[KeyOf(agent)] = 0 THEN <<>>
                            ELSE heap[chats[KeyOf(agent)]].messages
                      /\ new[Len(new)].id = nextId
                      /\ new[Len(new)].role = "user"
       /\ (client.call.at = "posted" /\ client'.call.at = "idle")
          => /\ OnlyKey(KeyOf(client.call.g.agent))
             /\ client.call.h = chats'[KeyOf(client.call.g.agent)]
       /\ \A key \in Keys :
             /\ GetChatHistory(key)
                => /\ OnlyKey(key)
                   /\ chats'[key] # 0
                   /\ ret'.val = heap'[chats'[key]].messages
                   /\ chats[key] # 0
                      => ret'.val = heap[chats[key]].messages
             /\ ClearChatHistory(key)
                => /\ OnlyKey(key)
                   /\ chats'[key] # 0
                   /\ heap'[chats'[key]].messages = <<>>
             /\ ClientDeleteChat(key)
                => /\ OnlyKey(key)
                   /\ chats'[key] = 0]_vars

\* the conversation of the agent was cleared while the default conversation
\* holds a completed exchange
C28_Witness ==
    /\ last.op = "clear_chat_history"
    /\ last.id = "agent1"
    /\ heap[chats["agent1"]].messages = <<>>
    /\ Len(added[chats["agent1"]]) = 0
    /\ chats["default"] # 0
    /\ Len(heap[chats["default"]].messages) = 2

\* the referer a request of the given agent is to carry
RefererOf(agent) ==
    IF agent = NoAgent THEN <<"https://www.blackbox.ai/chat">>
    ELSE <<"https://www.blackbox.ai/agent/", agent>>

\* C29: every chat request that is out carries the referer of its own
\* agent, the agent path with an agent and the chat path without one: the
\* request of a blocking call, and the request of each task when several
\* create_async calls with different agents interleave on one client and
\* its one headers map.
C29_RefererPerRequest ==
    /\ \A t \in Threads :
          pc[t].at = "posted"
          => pc[t].sent.headers.referer = RefererOf(pc[t].g.agent)
    /\ client.call.at = "posted"
       => client.referer = RefererOf(client.call.g.agent)

\* two requests with different agents are out, both sent after a live
\* fetch during which the other task ran; the headers map of the client
\* holds the referer of the later one
C29_Witness ==
    /\ pc[1].at = "posted"
    /\ pc[2].at = "posted"
    /\ pc[1].g.agent = "agent1"
    /\ pc[2].g.agent = NoAgent
    /\ pc[1].mid < pc[2].mid
    /\ pc[1].sent.payload.validated = "None"
    /\ client.referer # pc[1].sent.headers.referer
    /\ client.referer = pc[2].sent.headers.referer

\* the Chat of handle h was constructed by the application, not handed out
\* by get_or_create_chat (in a run that deletes no chat)
Direct(h) == issued[heap[h].chat_id] # h

\* C30: a Chat constructed directly as Chat(db, id) on a DictDatabase
\* accepts add_message without error, the message is appended after the
\* ones it holds, with the content and the role passed, and get_messages()
\* returns the messages added, in the order they were added.
C30_DirectChat ==
    [][\A h \in Handles :
         Direct(h) /\ last'.h = h =>
           /\ last'.op = "add_message" /\ nextId' = nextId + 1 =>
                /\ last'.err = "None"
                /\ Len(heap'[h].messages) = Len(heap[h].messages) + 1
                /\ SubSeq(heap'[h].messages, 1, Len(heap[h].messages))
                     = heap[h].messages
                /\ heap'[h].messages[Len(heap'[h].messages)].content
                     = last'.arg.content
                /\ heap'[h].messages[Len(heap'[h].messages)].role
                     = last'.arg.role
           /\ last'.op = "get_messages" =>
                /\ ret'.kind = "list"
                /\ Len(ret'.val) = Len(added[h])
                /\ \A i \in 1..Len(ret'.val) : ret'.val[i].id = added[h][i]
      ]_vars

\* C31: a successful completions.create call on a client with chat history
\* adds one message to what get_chat_history() returns, whose content is
\* the message as the caller passed it (so k calls on a fresh client give k
\* messages, the i-th with the i-th input), and after clear_chat_history()
\* get_chat_history() returns an empty list.
C31_HistoryAsPassed ==
    [][/\ \A key \in Keys :
             (/\ client.call.at = "posted"
              /\ client.call.mode = "sync"
              /\ key = KeyOf(client.call.g.agent)
              /\ client'.call.at = "idle"
              /\ last'.err = "None")
             => LET history == get_chat_history(World, key, now)'.val
                IN /\ Len(history) = Len(client.call.before) + 1
                   /\ SubSeq(history, 1, Len(client.call.before))
                        = client.call.before
                   /\ history[Len(client.call.before) + 1].content
                        = client.call.message
       /\ \A key \in Keys :
             ClearChatHistory(key)
             => get_chat_history(World, key, now)'.val = <<>>
      ]_vars

\* C32: a Message built from the dict that to_dict() returned for a message
\* has the content, the role and the image of that message, for every
\* message, with and without an image; its id and timestamp are its own.
C32_RoundTrip ==
    [][(last.op = "to_dict" /\ last'.op = "Message")
       => /\ ret'.kind = "message"
          /\ ret'.val.content = last.arg.content
          /\ ret'.val.role = last.arg.role
          /\ ret'.val.image = last.arg.image]_vars

\* a message with an image was written out and built again: the new
\* Message has the image, and another id than the message in the chat
C32_Witness ==
    /\ last.op = "Message"
    /\ ret.kind = "message"
    /\ ret.val.image = EncodedImage
    /\ \E h \in Handles :
          \E i \in 1..Len(heap[h].messages) :
             /\ heap[h].messages[i].image = ret.val.image
             /\ heap[h].messages[i].content = ret.val.content
             /\ heap[h].messages[i].id # ret.val.id

\* the file holds a JSON map of cookie names to values
IsCookieMap(file) ==
    /\ file.exists
    /\ file.json
    /\ file.value.kind = "dict"
    /\ \A i \in 1..Len(file.value.items) :
          file.value.items[i].value.kind = "str"

\* the items of a cookie header: name=value, joined by "; "
RECURSIVE Header(_)
Header(items) ==
    IF items = <<>> THEN <<>>
    ELSE Head(items).key \o <<"=">> \o Head(items).value.s
         \o (IF Len(items) > 1 THEN <<";", " ">> ELSE <<>>)
         \o Header(Tail(items))

\* C33: load_cookies returns, for a file that holds a JSON map of cookie
\* names to values, the string "name=value; ..." of all its entries, and
\* for a file that holds a raw cookie string (no JSON), that string with
\* the whitespace around it removed.
C33_BothFormats ==
    [][LoadCookies
       => /\ IsCookieMap(cookie_file)
             => /\ last'.err = "None"
                /\ ret'.val = Header(cookie_file.value.items)
          /\ (cookie_file.exists /\ ~cookie_file.json)
             => /\ last'.err = "None"
                /\ ret'.val = strip(cookie_file.text)]_vars

\* C40: when the client asks for the cookie string because the file is
\* missing, and the string typed is valid, the file written by
\* parse_and_save_cookies is read back by load_cookies as the header made
\* of exactly the name=value pairs parsed from the string, and that is the
\* cookie header of the client.
C40_CookieRoundTrip ==
    [][\A cookie_string \in CookieStrings :
          (/\ ~cookie_file.exists
           /\ validate_cookie(cookie_string)
           /\ Construct(FALSE, cookie_string))
          => /\ last'.err = "None"
             /\ load_cookies(cookie_file').val
                  = Header(cookie_dict(cookie_string))
             /\ client'.cookie.set
             /\ client'.cookie.val = Header(cookie_dict(cookie_string))]_vars

\* C34: in every state the ids that have a chat in DictDatabase.chats are
\* the ids that have an entry in DictDatabase.metadata.
C34_SameIds ==
    \A id \in AllIds : chats[id] # 0 <=> metadata[id].present

\* C35: the first get_or_create_chat(id) after delete_chat(id) (or
\* clear_all, or ever) returns a chat with an empty history, whatever was
\* done in between through handles of the deleted chat.
C35_DeletedStaysDeleted ==
    [][\A id \in Keys :
          (issued[id] = 0 /\ GetOrCreateChat(id))
          => get_messages(heap'[last'.h]) = <<>>]_vars

\* C36: a save_chat that fails with DatabaseError, for an argument that is
\* no Chat or for a chat whose id has no metadata entry, leaves chats and
\* metadata as they were before the call.
C36_FailedSaveFrame ==
    [][/\ SaveChatInvalid => (chats' = chats /\ metadata' = metadata)
       /\ \A h \in Handles :
             (SaveChat(h) /\ last'.err = "DatabaseError")
             => (chats' = chats /\ metadata' = metadata)]_vars

\* C37: on a client with use_chat_history=False a generate call reaches its
\* request on a Chat of its own, the payload holds the user message of the
\* call and no other message, with a successful response the call
\* succeeds, and the call adds no chat to the ones the database stores.
C37_NoHistory ==
    [][~use_chat_history
       => /\ \A mode \in Modes, agent \in Agents, fetched \in {"None", Token} :
                Generate(mode, Plain(agent), fetched)
                => /\ last'.err = "pending"
                   /\ client'.call.h \notin Handles
                   /\ Len(client'.payload.messages) = 1
                   /\ client'.payload.messages[1].id = nextId
                   /\ list_chats(World') = list_chats(World)
          /\ Respond(OkResponse)
             => /\ last'.err = "None"
                /\ list_chats(World') = list_chats(World)]_vars

\* C38: the payload a create_async call sends ends with the user message
\* of that call and holds no user message that a call started later
\* appended, also when the calls of two tasks on one chat interleave at
\* the token fetch and at the request.
C38_OwnMessageLast ==
    \A t \in Threads :
       pc[t].at = "posted"
       => LET messages == pc[t].sent.payload.messages
          IN /\ messages[Len(messages)].id = pc[t].mid
             /\ \A i \in 1..Len(messages) :
                   messages[i].role = "user" => messages[i].id <= pc[t].mid

\* C39: get_chat_history(agent) for an agent that has no chat returns an
\* empty list and leaves list_chats() and the metadata of the database as
\* they were.
C39_HistoryReadOnly ==
    [][\A key \in Keys :
          (chats[key] = 0 /\ GetChatHistory(key))
          => /\ ret'.val = <<>>
             /\ list_chats(World') = list_chats(World)
             /\ metadata' = metadata]_vars

====
